---- MODULE Spec2Model ----
(***************************************************************************)
(* Model of the OpenAnalyst proxy: the POST /v1/responses endpoint          *)
(* (server.ts), request validation and translation                         *)
(* (request-translator.ts), the response translators and the stream event  *)
(* synthesizer (response-translator.js), and the line loop of the upstream  *)
(* streaming client (openrouter-client.ts).                                 *)
(*                                                                         *)
(* Spec is one exchange, SpecResolve is model resolution applied twice,     *)
(* SpecPair is two streaming exchanges served concurrently, SpecChunk is    *)
(* translateStreamChunk called on its own, SpecConsumer is one streaming    *)
(* exchange and the consumer's side of its connection, SpecTranslate is     *)
(* the translation of requests whose input is a sequence of turns,          *)
(* SpecReader is the read loop of the upstream streaming client.            *)
(*                                                                         *)
(* JavaScript values are tagged records: the field t is the value's kind.   *)
(***************************************************************************)
EXTENDS Integers, Sequences, FiniteSets, TLC

VARIABLES
    body,       \* req.body of the request being served (SpecReader: the upstream body)
    pc,         \* position of the route handler
    state,      \* the StreamState of handleStreamingRequest (NoState before it exists;
                \* SpecReader: the buffer of the read loop, the lines of the read
                \* still to handle and the number of pieces delivered)
    log,        \* every effect of the handler, in program order
    reads,      \* number of upstream lines delivered to the streaming client
    idCounter   \* number of identifiers generateId has handed out

vars == <<body, pc, state, log, reads, idCounter>>

\* ------------------------------------------------------------------ bounds

\* Most upstream lines one streaming exchange receives before it must close or fail.
MaxReads == 3

\* ------------------------------------------------------------ JS values

Undefined == [t |-> "undefined"]
Null == [t |-> "null"]
Str(s) == [t |-> "string", s |-> s]
Num(n) == [t |-> "number", n |-> n]
Bool(b) == [t |-> "boolean", b |-> b]
Arr(items) == [t |-> "array", items |-> items]

\* An object is a record with t = "object" and one field for each of its
\* properties. A record keeps no order: where the order in which the properties
\* were written matters (JSON.stringify follows it), the object carries it in
\* the field keys, the sequence of its property names.

\* A model name string together with its split on "/".
ModelName(s, parts) == [t |-> "string", s |-> s, split |-> parts]

\* An exception object created by `new Error(message)` or by the runtime.
ErrorObj(name, message) == [t |-> "error", name |-> name, message |-> message]

\* JavaScript's truthiness: !v
Falsy(v) ==
    \/ v.t \in {"undefined", "null"}
    \/ (v.t = "string" /\ v.s = "")
    \/ (v.t = "number" /\ v.n = 0)
    \/ (v.t = "boolean" /\ ~v.b)

\* JavaScript's typeof: null and arrays are "object"; an Error is an object too.
TypeOf(v) ==
    IF v.t \in {"null", "array", "object", "request", "error"} THEN "object" ELSE v.t

Thrown(e) == [ok |-> FALSE, error |-> e]
Returned(v) == [ok |-> TRUE, value |-> v]

\* obj.name on a value the translator takes for a record: the property when the
\* value is an object that has it, undefined otherwise. (On null and undefined
\* the read throws; the callers test for that first.)
Prop(obj, name) ==
    IF obj.t = "object" /\ name \in DOMAIN obj THEN obj[name] ELSE Undefined

\* ------------------------------------------------------------------ strings

\* A string of the model is a TLA+ string, which holds the characters U+0001
\* to U+007F. It stands for a sequence of UTF-16 code units, each of them
\* written in one way only: a code unit from 1 to 127 other than the backslash
\* is the character of that code, and the code unit 0, the backslash (92) and
\* every code unit beyond 127 are the six characters \uXXXX, XXXX being the
\* code unit in four hexadecimal digits with capital letters, so that the
\* backslash is \u005C. A backslash in a string of the model therefore always
\* starts such an escape: two strings are equal exactly when their code units
\* are, and the strings of two sequences of code units, joined by \o, are the
\* string of the two sequences joined.

\* The characters U+0001 to U+007F, in order, Ascii[u] being the character
\* of code u: the control characters, written as they are where a string has
\* no escape for them, then the printing ones. A string holds a backquote
\* only with a quote after it.
Ascii ==
    LET chars ==
            "\t\n\f\r"
            \o " !\"#$%&'()*+,-./0123456789:;<=>?@ABCDEFGHIJKLMNOPQRSTUVWXYZ[\\]^_"
            \o SubSeq("`'", 1, 1)
            \o "abcdefghijklmnopqrstuvwxyz{|}~"
    IN  [u \in 1..127 |-> SubSeq(chars, u, u)]

\* The code of each of these characters.
CharCode == [c \in {Ascii[u] : u \in 1..127} |-> CHOOSE u \in 1..127 : Ascii[u] = c]

\* The UTF-16 code units of a string, s.charCodeAt(i) for every i: an escape
\* is its code unit, any other character is its code. (Of a text that is no
\* string of the model, the digits of an escape are read in small letters
\* too, and a backslash that starts no escape as the code unit 92.)
CodeUnits(s) ==
    LET digits(c) == {v \in 0..15 : c \in {SubSeq("0123456789ABCDEF", v + 1, v + 1),
                                           SubSeq("0123456789abcdef", v + 1, v + 1)}}
        hex(c) == CHOOSE v \in digits(c) : TRUE
        units(chars) ==
            LET escape(i) == /\ i >= 1
                             /\ i + 5 <= Len(chars)
                             /\ chars[i] = "\\"
                             /\ chars[i + 1] = "u"
                             /\ \A k \in 2..5 : digits(chars[i + k]) # {}
                unit(i) == IF escape(i)
                           THEN 4096 * hex(chars[i + 2]) + 256 * hex(chars[i + 3])
                                + 16 * hex(chars[i + 4]) + hex(chars[i + 5])
                           ELSE CharCode[chars[i]]
                coded(starts) == [k \in 1..Len(starts) |-> unit(starts[k])]
            IN  coded(SelectSeq([i \in 1..Len(chars) |-> i],
                                LAMBDA i : \A j \in (i - 5)..(i - 1) : ~escape(j)))
    IN  units([i \in 1..Len(s) |-> SubSeq(s, i, i)])

\* The strings of a sequence, one after the other.
RECURSIVE Concat(_)
Concat(strings) ==
    LET half == Len(strings) \div 2
    IN  IF strings = <<>> THEN ""
        ELSE IF Len(strings) = 1 THEN strings[1]
        ELSE Concat(SubSeq(strings, 1, half)) \o Concat(SubSeq(strings, half + 1, Len(strings)))

\* String.fromCharCode(...units): the string of the given code units.
FromCodeUnits(units) ==
    LET hex(v) == SubSeq("0123456789ABCDEF", v + 1, v + 1)
        char(u) == IF u \in 1..127 \ {92} THEN Ascii[u]
                   ELSE "\\u" \o hex(u \div 4096) \o hex((u \div 256) % 16)
                              \o hex((u \div 16) % 16) \o hex(u % 16)
    IN  Concat([i \in 1..Len(units) |-> char(units[i])])

\* The lower-case letter of a code point that has one and is lowered whatever
\* stands around it, and the code point itself otherwise: the simple lower-case
\* mappings of the Unicode character database, version 17. A set of pairs is
\* a set of ranges; inside a range whose letters alternate between the two
\* cases, the capital letters are the even or the odd code points.
LowerCase(cp) ==
    LET In(set) == \E r \in set : r[1] <= cp /\ cp <= r[2]
    IN
        CASE In({<<\h0041, \h005A>>, <<\h00C0, \h00D6>>, <<\h00D8, \h00DE>>,
                <<\h0391, \h03A1>>, <<\h03A4, \h03AB>>, <<\h0410, \h042F>>,
                <<\hFF21, \hFF3A>>, <<\h10D50, \h10D65>>, <<\h118A0, \h118BF>>,
                <<\h16E40, \h16E5F>>}) -> cp + 32
          [] cp % 2 = 0 /\ In({<<\h0100, \h012E>>, <<\h0132, \h0136>>,
                <<\h014A, \h0176>>, <<\h0182, \h0184>>, <<\h0198, \h0198>>,
                <<\h01A0, \h01A4>>, <<\h01AC, \h01AC>>, <<\h01B8, \h01B8>>,
                <<\h01BC, \h01BC>>, <<\h01C8, \h01C8>>, <<\h01DE, \h01EE>>,
                <<\h01F2, \h01F4>>, <<\h01F8, \h021E>>, <<\h0222, \h0232>>,
                <<\h0246, \h024E>>, <<\h0370, \h0372>>, <<\h0376, \h0376>>,
                <<\h03D8, \h03EE>>, <<\h03FA, \h03FA>>, <<\h0460, \h0480>>,
                <<\h048A, \h04BE>>, <<\h04D0, \h052E>>, <<\h1E00, \h1E94>>,
                <<\h1EA0, \h1EFE>>, <<\h2C60, \h2C60>>, <<\h2C72, \h2C72>>,
                <<\h2C80, \h2CE2>>, <<\h2CF2, \h2CF2>>, <<\hA640, \hA66C>>,
                <<\hA680, \hA69A>>, <<\hA722, \hA72E>>, <<\hA732, \hA76E>>,
                <<\hA77E, \hA786>>, <<\hA790, \hA792>>, <<\hA796, \hA7A8>>,
                <<\hA7B4, \hA7C2>>, <<\hA7CC, \hA7DA>>}) -> cp + 1
          [] cp % 2 = 1 /\ In({<<\h0139, \h0147>>, <<\h0179, \h017D>>,
                <<\h0187, \h0187>>, <<\h018B, \h018B>>, <<\h0191, \h0191>>,
                <<\h01A7, \h01A7>>, <<\h01AF, \h01AF>>, <<\h01B3, \h01B5>>,
                <<\h01C5, \h01C5>>, <<\h01CB, \h01DB>>, <<\h023B, \h023B>>,
                <<\h0241, \h0241>>, <<\h03F7, \h03F7>>, <<\h04C1, \h04CD>>,
                <<\h1C89, \h1C89>>, <<\h2183, \h2183>>, <<\h2C67, \h2C6B>>,
                <<\h2C75, \h2C75>>, <<\h2CEB, \h2CED>>, <<\hA779, \hA77B>>,
                <<\hA78B, \hA78B>>, <<\hA7C7, \hA7C9>>, <<\hA7F5, \hA7F5>>}) -> cp + 1
          [] In({<<\h0178, \h0178>>}) -> cp - 121
          [] In({<<\h0181, \h0181>>}) -> cp + 210
          [] In({<<\h0186, \h0186>>}) -> cp + 206
          [] In({<<\h0189, \h018A>>, <<\h0193, \h0193>>}) -> cp + 205
          [] In({<<\h018E, \h018E>>}) -> cp + 79
          [] In({<<\h018F, \h018F>>}) -> cp + 202
          [] In({<<\h0190, \h0190>>}) -> cp + 203
          [] In({<<\h0194, \h0194>>}) -> cp + 207
          [] In({<<\h0196, \h0196>>, <<\h019C, \h019C>>}) -> cp + 211
          [] In({<<\h0197, \h0197>>}) -> cp + 209
          [] In({<<\h019D, \h019D>>}) -> cp + 213
          [] In({<<\h019F, \h019F>>}) -> cp + 214
          [] In({<<\h01A6, \h01A6>>, <<\h01A9, \h01A9>>, <<\h01AE, \h01AE>>})
                -> cp + 218
          [] In({<<\h01B1, \h01B2>>}) -> cp + 217
          [] In({<<\h01B7, \h01B7>>}) -> cp + 219
          [] In({<<\h01C4, \h01C4>>, <<\h01C7, \h01C7>>, <<\h01CA, \h01CA>>,
                <<\h01F1, \h01F1>>}) -> cp + 2
          [] In({<<\h01F6, \h01F6>>}) -> cp - 97
          [] In({<<\h01F7, \h01F7>>}) -> cp - 56
          [] In({<<\h0220, \h0220>>, <<\h03FD, \h03FF>>}) -> cp - 130
          [] In({<<\h023A, \h023A>>}) -> cp + 10795
          [] In({<<\h023D, \h023D>>}) -> cp - 163
          [] In({<<\h023E, \h023E>>}) -> cp + 10792
          [] In({<<\h0243, \h0243>>}) -> cp - 195
          [] In({<<\h0244, \h0244>>}) -> cp + 69
          [] In({<<\h0245, \h0245>>}) -> cp + 71
          [] In({<<\h037F, \h037F>>}) -> cp + 116
          [] In({<<\h0386, \h0386>>}) -> cp + 38
          [] In({<<\h0388, \h038A>>}) -> cp + 37
          [] In({<<\h038C, \h038C>>, <<\h10C80, \h10CB2>>}) -> cp + 64
          [] In({<<\h038E, \h038F>>}) -> cp + 63
          [] In({<<\h03CF, \h03CF>>, <<\h13F0, \h13F5>>}) -> cp + 8
          [] In({<<\h03F4, \h03F4>>}) -> cp - 60
          [] In({<<\h03F9, \h03F9>>, <<\h1FEC, \h1FEC>>}) -> cp - 7
          [] In({<<\h0400, \h040F>>}) -> cp + 80
          [] In({<<\h04C0, \h04C0>>}) -> cp + 15
          [] In({<<\h0531, \h0556>>, <<\h2C00, \h2C2F>>}) -> cp + 48
          [] In({<<\h10A0, \h10C5>>, <<\h10C7, \h10C7>>, <<\h10CD, \h10CD>>})
                -> cp + 7264
          [] In({<<\h13A0, \h13EF>>}) -> cp + 38864
          [] In({<<\h1C90, \h1CBA>>, <<\h1CBD, \h1CBF>>}) -> cp - 3008
          [] In({<<\h1E9E, \h1E9E>>}) -> cp - 7615
          [] In({<<\h1F08, \h1F0F>>, <<\h1F18, \h1F1D>>, <<\h1F28, \h1F2F>>,
                <<\h1F38, \h1F3F>>, <<\h1F48, \h1F4D>>, <<\h1F59, \h1F59>>,
                <<\h1F5B, \h1F5B>>, <<\h1F5D, \h1F5D>>, <<\h1F5F, \h1F5F>>,
                <<\h1F68, \h1F6F>>, <<\h1F88, \h1F8F>>, <<\h1F98, \h1F9F>>,
                <<\h1FA8, \h1FAF>>, <<\h1FB8, \h1FB9>>, <<\h1FD8, \h1FD9>>,
                <<\h1FE8, \h1FE9>>}) -> cp - 8
          [] In({<<\h1FBA, \h1FBB>>}) -> cp - 74
          [] In({<<\h1FBC, \h1FBC>>, <<\h1FCC, \h1FCC>>, <<\h1FFC, \h1FFC>>})
                -> cp - 9
          [] In({<<\h1FC8, \h1FCB>>}) -> cp - 86
          [] In({<<\h1FDA, \h1FDB>>}) -> cp - 100
          [] In({<<\h1FEA, \h1FEB>>}) -> cp - 112
          [] In({<<\h1FF8, \h1FF9>>}) -> cp - 128
          [] In({<<\h1FFA, \h1FFB>>}) -> cp - 126
          [] In({<<\h2126, \h2126>>}) -> cp - 7517
          [] In({<<\h212A, \h212A>>}) -> cp - 8383
          [] In({<<\h212B, \h212B>>}) -> cp - 8262
          [] In({<<\h2132, \h2132>>}) -> cp + 28
          [] In({<<\h2160, \h216F>>}) -> cp + 16
          [] In({<<\h24B6, \h24CF>>}) -> cp + 26
          [] In({<<\h2C62, \h2C62>>}) -> cp - 10743
          [] In({<<\h2C63, \h2C63>>}) -> cp - 3814
          [] In({<<\h2C64, \h2C64>>}) -> cp - 10727
          [] In({<<\h2C6D, \h2C6D>>}) -> cp - 10780
          [] In({<<\h2C6E, \h2C6E>>}) -> cp - 10749
          [] In({<<\h2C6F, \h2C6F>>}) -> cp - 10783
          [] In({<<\h2C70, \h2C70>>}) -> cp - 10782
          [] In({<<\h2C7E, \h2C7F>>}) -> cp - 10815
          [] In({<<\hA77D, \hA77D>>}) -> cp - 35332
          [] In({<<\hA78D, \hA78D>>}) -> cp - 42280
          [] In({<<\hA7AA, \hA7AA>>, <<\hA7AE, \hA7AE>>}) -> cp - 42308
          [] In({<<\hA7AB, \hA7AB>>}) -> cp - 42319
          [] In({<<\hA7AC, \hA7AC>>}) -> cp - 42315
          [] In({<<\hA7AD, \hA7AD>>}) -> cp - 42305
          [] In({<<\hA7B0, \hA7B0>>}) -> cp - 42258
          [] In({<<\hA7B1, \hA7B1>>}) -> cp - 42282
          [] In({<<\hA7B2, \hA7B2>>}) -> cp - 42261
          [] In({<<\hA7B3, \hA7B3>>}) -> cp + 928
          [] In({<<\hA7C4, \hA7C4>>}) -> cp - 48
          [] In({<<\hA7C5, \hA7C5>>}) -> cp - 42307
          [] In({<<\hA7C6, \hA7C6>>}) -> cp - 35384
          [] In({<<\hA7CB, \hA7CB>>}) -> cp - 42343
          [] In({<<\hA7DC, \hA7DC>>}) -> cp - 42561
          [] In({<<\h10400, \h10427>>, <<\h104B0, \h104D3>>}) -> cp + 40
          [] In({<<\h10570, \h1057A>>, <<\h1057C, \h1058A>>, <<\h1058C, \h10592>>,
                <<\h10594, \h10595>>}) -> cp + 39
          [] In({<<\h16EA0, \h16EB8>>}) -> cp + 27
          [] In({<<\h1E900, \h1E921>>}) -> cp + 34
          [] OTHER -> cp

\* The code points with the property Cased that are not case-ignorable too,
\* by the same version of the database.
Cased(cp) ==
    \E r \in {<<\h0041, \h005A>>, <<\h0061, \h007A>>, <<\h00AA, \h00AA>>,
            <<\h00B5, \h00B5>>, <<\h00BA, \h00BA>>, <<\h00C0, \h00D6>>,
            <<\h00D8, \h00F6>>, <<\h00F8, \h01BA>>, <<\h01BC, \h01BF>>,
            <<\h01C4, \h0293>>, <<\h0296, \h02AF>>, <<\h0370, \h0373>>,
            <<\h0376, \h0377>>, <<\h037B, \h037D>>, <<\h037F, \h037F>>,
            <<\h0386, \h0386>>, <<\h0388, \h038A>>, <<\h038C, \h038C>>,
            <<\h038E, \h03A1>>, <<\h03A3, \h03F5>>, <<\h03F7, \h0481>>,
            <<\h048A, \h052F>>, <<\h0531, \h0556>>, <<\h0560, \h0588>>,
            <<\h10A0, \h10C5>>, <<\h10C7, \h10C7>>, <<\h10CD, \h10CD>>,
            <<\h10D0, \h10FA>>, <<\h10FD, \h10FF>>, <<\h13A0, \h13F5>>,
            <<\h13F8, \h13FD>>, <<\h1C80, \h1C8A>>, <<\h1C90, \h1CBA>>,
            <<\h1CBD, \h1CBF>>, <<\h1D00, \h1D2B>>, <<\h1D6B, \h1D77>>,
            <<\h1D79, \h1D9A>>, <<\h1E00, \h1F15>>, <<\h1F18, \h1F1D>>,
            <<\h1F20, \h1F45>>, <<\h1F48, \h1F4D>>, <<\h1F50, \h1F57>>,
            <<\h1F59, \h1F59>>, <<\h1F5B, \h1F5B>>, <<\h1F5D, \h1F5D>>,
            <<\h1F5F, \h1F7D>>, <<\h1F80, \h1FB4>>, <<\h1FB6, \h1FBC>>,
            <<\h1FBE, \h1FBE>>, <<\h1FC2, \h1FC4>>, <<\h1FC6, \h1FCC>>,
            <<\h1FD0, \h1FD3>>, <<\h1FD6, \h1FDB>>, <<\h1FE0, \h1FEC>>,
            <<\h1FF2, \h1FF4>>, <<\h1FF6, \h1FFC>>, <<\h2102, \h2102>>,
            <<\h2107, \h2107>>, <<\h210A, \h2113>>, <<\h2115, \h2115>>,
            <<\h2119, \h211D>>, <<\h2124, \h2124>>, <<\h2126, \h2126>>,
            <<\h2128, \h2128>>, <<\h212A, \h212D>>, <<\h212F, \h2134>>,
            <<\h2139, \h2139>>, <<\h213C, \h213F>>, <<\h2145, \h2149>>,
            <<\h214E, \h214E>>, <<\h2160, \h217F>>, <<\h2183, \h2184>>,
            <<\h24B6, \h24E9>>, <<\h2C00, \h2C7B>>, <<\h2C7E, \h2CE4>>,
            <<\h2CEB, \h2CEE>>, <<\h2CF2, \h2CF3>>, <<\h2D00, \h2D25>>,
            <<\h2D27, \h2D27>>, <<\h2D2D, \h2D2D>>, <<\hA640, \hA66D>>,
            <<\hA680, \hA69B>>, <<\hA722, \hA76F>>, <<\hA771, \hA787>>,
            <<\hA78B, \hA78E>>, <<\hA790, \hA7DC>>, <<\hA7F5, \hA7F6>>,
            <<\hA7FA, \hA7FA>>, <<\hAB30, \hAB5A>>, <<\hAB60, \hAB68>>,
            <<\hAB70, \hABBF>>, <<\hFB00, \hFB06>>, <<\hFB13, \hFB17>>,
            <<\hFF21, \hFF3A>>, <<\hFF41, \hFF5A>>, <<\h10400, \h1044F>>,
            <<\h104B0, \h104D3>>, <<\h104D8, \h104FB>>, <<\h10570, \h1057A>>,
            <<\h1057C, \h1058A>>, <<\h1058C, \h10592>>, <<\h10594, \h10595>>,
            <<\h10597, \h105A1>>, <<\h105A3, \h105B1>>, <<\h105B3, \h105B9>>,
            <<\h105BB, \h105BC>>, <<\h10C80, \h10CB2>>, <<\h10CC0, \h10CF2>>,
            <<\h10D50, \h10D65>>, <<\h10D70, \h10D85>>, <<\h118A0, \h118DF>>,
            <<\h16E40, \h16E7F>>, <<\h16EA0, \h16EB8>>, <<\h16EBB, \h16ED3>>,
            <<\h1D400, \h1D454>>, <<\h1D456, \h1D49C>>, <<\h1D49E, \h1D49F>>,
            <<\h1D4A2, \h1D4A2>>, <<\h1D4A5, \h1D4A6>>, <<\h1D4A9, \h1D4AC>>,
            <<\h1D4AE, \h1D4B9>>, <<\h1D4BB, \h1D4BB>>, <<\h1D4BD, \h1D4C3>>,
            <<\h1D4C5, \h1D505>>, <<\h1D507, \h1D50A>>, <<\h1D50D, \h1D514>>,
            <<\h1D516, \h1D51C>>, <<\h1D51E, \h1D539>>, <<\h1D53B, \h1D53E>>,
            <<\h1D540, \h1D544>>, <<\h1D546, \h1D546>>, <<\h1D54A, \h1D550>>,
            <<\h1D552, \h1D6A5>>, <<\h1D6A8, \h1D6C0>>, <<\h1D6C2, \h1D6DA>>,
            <<\h1D6DC, \h1D6FA>>, <<\h1D6FC, \h1D714>>, <<\h1D716, \h1D734>>,
            <<\h1D736, \h1D74E>>, <<\h1D750, \h1D76E>>, <<\h1D770, \h1D788>>,
            <<\h1D78A, \h1D7A8>>, <<\h1D7AA, \h1D7C2>>, <<\h1D7C4, \h1D7CB>>,
            <<\h1DF00, \h1DF09>>, <<\h1DF0B, \h1DF1E>>, <<\h1DF25, \h1DF2A>>,
            <<\h1E900, \h1E943>>, <<\h1F130, \h1F149>>, <<\h1F150, \h1F169>>,
            <<\h1F170, \h1F189>>} :
        r[1] <= cp /\ cp <= r[2]

\* The code points with the property Case_Ignorable, by the same version.
CaseIgnorable(cp) ==
    \E r \in {<<\h0027, \h0027>>, <<\h002E, \h002E>>, <<\h003A, \h003A>>,
            <<\h005E, \h005E>>, <<\h0060, \h0060>>, <<\h00A8, \h00A8>>,
            <<\h00AD, \h00AD>>, <<\h00AF, \h00AF>>, <<\h00B4, \h00B4>>,
            <<\h00B7, \h00B8>>, <<\h02B0, \h036F>>, <<\h0374, \h0375>>,
            <<\h037A, \h037A>>, <<\h0384, \h0385>>, <<\h0387, \h0387>>,
            <<\h0483, \h0489>>, <<\h0559, \h0559>>, <<\h055F, \h055F>>,
            <<\h0591, \h05BD>>, <<\h05BF, \h05BF>>, <<\h05C1, \h05C2>>,
            <<\h05C4, \h05C5>>, <<\h05C7, \h05C7>>, <<\h05F4, \h05F4>>,
            <<\h0600, \h0605>>, <<\h0610, \h061A>>, <<\h061C, \h061C>>,
            <<\h0640, \h0640>>, <<\h064B, \h065F>>, <<\h0670, \h0670>>,
            <<\h06D6, \h06DD>>, <<\h06DF, \h06E8>>, <<\h06EA, \h06ED>>,
            <<\h070F, \h070F>>, <<\h0711, \h0711>>, <<\h0730, \h074A>>,
            <<\h07A6, \h07B0>>, <<\h07EB, \h07F5>>, <<\h07FA, \h07FA>>,
            <<\h07FD, \h07FD>>, <<\h0816, \h082D>>, <<\h0859, \h085B>>,
            <<\h0888, \h0888>>, <<\h0890, \h0891>>, <<\h0897, \h089F>>,
            <<\h08C9, \h0902>>, <<\h093A, \h093A>>, <<\h093C, \h093C>>,
            <<\h0941, \h0948>>, <<\h094D, \h094D>>, <<\h0951, \h0957>>,
            <<\h0962, \h0963>>, <<\h0971, \h0971>>, <<\h0981, \h0981>>,
            <<\h09BC, \h09BC>>, <<\h09C1, \h09C4>>, <<\h09CD, \h09CD>>,
            <<\h09E2, \h09E3>>, <<\h09FE, \h09FE>>, <<\h0A01, \h0A02>>,
            <<\h0A3C, \h0A3C>>, <<\h0A41, \h0A42>>, <<\h0A47, \h0A48>>,
            <<\h0A4B, \h0A4D>>, <<\h0A51, \h0A51>>, <<\h0A70, \h0A71>>,
            <<\h0A75, \h0A75>>, <<\h0A81, \h0A82>>, <<\h0ABC, \h0ABC>>,
            <<\h0AC1, \h0AC5>>, <<\h0AC7, \h0AC8>>, <<\h0ACD, \h0ACD>>,
            <<\h0AE2, \h0AE3>>, <<\h0AFA, \h0AFF>>, <<\h0B01, \h0B01>>,
            <<\h0B3C, \h0B3C>>, <<\h0B3F, \h0B3F>>, <<\h0B41, \h0B44>>,
            <<\h0B4D, \h0B4D>>, <<\h0B55, \h0B56>>, <<\h0B62, \h0B63>>,
            <<\h0B82, \h0B82>>, <<\h0BC0, \h0BC0>>, <<\h0BCD, \h0BCD>>,
            <<\h0C00, \h0C00>>, <<\h0C04, \h0C04>>, <<\h0C3C, \h0C3C>>,
            <<\h0C3E, \h0C40>>, <<\h0C46, \h0C48>>, <<\h0C4A, \h0C4D>>,
            <<\h0C55, \h0C56>>, <<\h0C62, \h0C63>>, <<\h0C81, \h0C81>>,
            <<\h0CBC, \h0CBC>>, <<\h0CBF, \h0CBF>>, <<\h0CC6, \h0CC6>>,
            <<\h0CCC, \h0CCD>>, <<\h0CE2, \h0CE3>>, <<\h0D00, \h0D01>>,
            <<\h0D3B, \h0D3C>>, <<\h0D41, \h0D44>>, <<\h0D4D, \h0D4D>>,
            <<\h0D62, \h0D63>>, <<\h0D81, \h0D81>>, <<\h0DCA, \h0DCA>>,
            <<\h0DD2, \h0DD4>>, <<\h0DD6, \h0DD6>>, <<\h0E31, \h0E31>>,
            <<\h0E34, \h0E3A>>, <<\h0E46, \h0E4E>>, <<\h0EB1, \h0EB1>>,
            <<\h0EB4, \h0EBC>>, <<\h0EC6, \h0EC6>>, <<\h0EC8, \h0ECE>>,
            <<\h0F18, \h0F19>>, <<\h0F35, \h0F35>>, <<\h0F37, \h0F37>>,
            <<\h0F39, \h0F39>>, <<\h0F71, \h0F7E>>, <<\h0F80, \h0F84>>,
            <<\h0F86, \h0F87>>, <<\h0F8D, \h0F97>>, <<\h0F99, \h0FBC>>,
            <<\h0FC6, \h0FC6>>, <<\h102D, \h1030>>, <<\h1032, \h1037>>,
            <<\h1039, \h103A>>, <<\h103D, \h103E>>, <<\h1058, \h1059>>,
            <<\h105E, \h1060>>, <<\h1071, \h1074>>, <<\h1082, \h1082>>,
            <<\h1085, \h1086>>, <<\h108D, \h108D>>, <<\h109D, \h109D>>,
            <<\h10FC, \h10FC>>, <<\h135D, \h135F>>, <<\h1712, \h1714>>,
            <<\h1732, \h1733>>, <<\h1752, \h1753>>, <<\h1772, \h1773>>,
            <<\h17B4, \h17B5>>, <<\h17B7, \h17BD>>, <<\h17C6, \h17C6>>,
            <<\h17C9, \h17D3>>, <<\h17D7, \h17D7>>, <<\h17DD, \h17DD>>,
            <<\h180B, \h180F>>, <<\h1843, \h1843>>, <<\h1885, \h1886>>,
            <<\h18A9, \h18A9>>, <<\h1920, \h1922>>, <<\h1927, \h1928>>,
            <<\h1932, \h1932>>, <<\h1939, \h193B>>, <<\h1A17, \h1A18>>,
            <<\h1A1B, \h1A1B>>, <<\h1A56, \h1A56>>, <<\h1A58, \h1A5E>>,
            <<\h1A60, \h1A60>>, <<\h1A62, \h1A62>>, <<\h1A65, \h1A6C>>,
            <<\h1A73, \h1A7C>>, <<\h1A7F, \h1A7F>>, <<\h1AA7, \h1AA7>>,
            <<\h1AB0, \h1ADD>>, <<\h1AE0, \h1AEB>>, <<\h1B00, \h1B03>>,
            <<\h1B34, \h1B34>>, <<\h1B36, \h1B3A>>, <<\h1B3C, \h1B3C>>,
            <<\h1B42, \h1B42>>, <<\h1B6B, \h1B73>>, <<\h1B80, \h1B81>>,
            <<\h1BA2, \h1BA5>>, <<\h1BA8, \h1BA9>>, <<\h1BAB, \h1BAD>>,
            <<\h1BE6, \h1BE6>>, <<\h1BE8, \h1BE9>>, <<\h1BED, \h1BED>>,
            <<\h1BEF, \h1BF1>>, <<\h1C2C, \h1C33>>, <<\h1C36, \h1C37>>,
            <<\h1C78, \h1C7D>>, <<\h1CD0, \h1CD2>>, <<\h1CD4, \h1CE0>>,
            <<\h1CE2, \h1CE8>>, <<\h1CED, \h1CED>>, <<\h1CF4, \h1CF4>>,
            <<\h1CF8, \h1CF9>>, <<\h1D2C, \h1D6A>>, <<\h1D78, \h1D78>>,
            <<\h1D9B, \h1DFF>>, <<\h1FBD, \h1FBD>>, <<\h1FBF, \h1FC1>>,
            <<\h1FCD, \h1FCF>>, <<\h1FDD, \h1FDF>>, <<\h1FED, \h1FEF>>,
            <<\h1FFD, \h1FFE>>, <<\h200B, \h200F>>, <<\h2018, \h2019>>,
            <<\h2024, \h2024>>, <<\h2027, \h2027>>, <<\h202A, \h202E>>,
            <<\h2060, \h2064>>, <<\h2066, \h206F>>, <<\h2071, \h2071>>,
            <<\h207F, \h207F>>, <<\h2090, \h209C>>, <<\h20D0, \h20F0>>,
            <<\h2C7C, \h2C7D>>, <<\h2CEF, \h2CF1>>, <<\h2D6F, \h2D6F>>,
            <<\h2D7F, \h2D7F>>, <<\h2DE0, \h2DFF>>, <<\h2E2F, \h2E2F>>,
            <<\h3005, \h3005>>, <<\h302A, \h302D>>, <<\h3031, \h3035>>,
            <<\h303B, \h303B>>, <<\h3099, \h309E>>, <<\h30FC, \h30FE>>,
            <<\hA015, \hA015>>, <<\hA4F8, \hA4FD>>, <<\hA60C, \hA60C>>,
            <<\hA66F, \hA672>>, <<\hA674, \hA67D>>, <<\hA67F, \hA67F>>,
            <<\hA69C, \hA69F>>, <<\hA6F0, \hA6F1>>, <<\hA700, \hA721>>,
            <<\hA770, \hA770>>, <<\hA788, \hA78A>>, <<\hA7F1, \hA7F4>>,
            <<\hA7F8, \hA7F9>>, <<\hA802, \hA802>>, <<\hA806, \hA806>>,
            <<\hA80B, \hA80B>>, <<\hA825, \hA826>>, <<\hA82C, \hA82C>>,
            <<\hA8C4, \hA8C5>>, <<\hA8E0, \hA8F1>>, <<\hA8FF, \hA8FF>>,
            <<\hA926, \hA92D>>, <<\hA947, \hA951>>, <<\hA980, \hA982>>,
            <<\hA9B3, \hA9B3>>, <<\hA9B6, \hA9B9>>, <<\hA9BC, \hA9BD>>,
            <<\hA9CF, \hA9CF>>, <<\hA9E5, \hA9E6>>, <<\hAA29, \hAA2E>>,
            <<\hAA31, \hAA32>>, <<\hAA35, \hAA36>>, <<\hAA43, \hAA43>>,
            <<\hAA4C, \hAA4C>>, <<\hAA70, \hAA70>>, <<\hAA7C, \hAA7C>>,
            <<\hAAB0, \hAAB0>>, <<\hAAB2, \hAAB4>>, <<\hAAB7, \hAAB8>>,
            <<\hAABE, \hAABF>>, <<\hAAC1, \hAAC1>>, <<\hAADD, \hAADD>>,
            <<\hAAEC, \hAAED>>, <<\hAAF3, \hAAF4>>, <<\hAAF6, \hAAF6>>,
            <<\hAB5B, \hAB5F>>, <<\hAB69, \hAB6B>>, <<\hABE5, \hABE5>>,
            <<\hABE8, \hABE8>>, <<\hABED, \hABED>>, <<\hFB1E, \hFB1E>>,
            <<\hFBB2, \hFBC2>>, <<\hFE00, \hFE0F>>, <<\hFE13, \hFE13>>,
            <<\hFE20, \hFE2F>>, <<\hFE52, \hFE52>>, <<\hFE55, \hFE55>>,
            <<\hFEFF, \hFEFF>>, <<\hFF07, \hFF07>>, <<\hFF0E, \hFF0E>>,
            <<\hFF1A, \hFF1A>>, <<\hFF3E, \hFF3E>>, <<\hFF40, \hFF40>>,
            <<\hFF70, \hFF70>>, <<\hFF9E, \hFF9F>>, <<\hFFE3, \hFFE3>>,
            <<\hFFF9, \hFFFB>>, <<\h101FD, \h101FD>>, <<\h102E0, \h102E0>>,
            <<\h10376, \h1037A>>, <<\h10780, \h10785>>, <<\h10787, \h107B0>>,
            <<\h107B2, \h107BA>>, <<\h10A01, \h10A03>>, <<\h10A05, \h10A06>>,
            <<\h10A0C, \h10A0F>>, <<\h10A38, \h10A3A>>, <<\h10A3F, \h10A3F>>,
            <<\h10AE5, \h10AE6>>, <<\h10D24, \h10D27>>, <<\h10D4E, \h10D4E>>,
            <<\h10D69, \h10D6D>>, <<\h10D6F, \h10D6F>>, <<\h10EAB, \h10EAC>>,
            <<\h10EC5, \h10EC5>>, <<\h10EFA, \h10EFF>>, <<\h10F46, \h10F50>>,
            <<\h10F82, \h10F85>>, <<\h11001, \h11001>>, <<\h11038, \h11046>>,
            <<\h11070, \h11070>>, <<\h11073, \h11074>>, <<\h1107F, \h11081>>,
            <<\h110B3, \h110B6>>, <<\h110B9, \h110BA>>, <<\h110BD, \h110BD>>,
            <<\h110C2, \h110C2>>, <<\h110CD, \h110CD>>, <<\h11100, \h11102>>,
            <<\h11127, \h1112B>>, <<\h1112D, \h11134>>, <<\h11173, \h11173>>,
            <<\h11180, \h11181>>, <<\h111B6, \h111BE>>, <<\h111C9, \h111CC>>,
            <<\h111CF, \h111CF>>, <<\h1122F, \h11231>>, <<\h11234, \h11234>>,
            <<\h11236, \h11237>>, <<\h1123E, \h1123E>>, <<\h11241, \h11241>>,
            <<\h112DF, \h112DF>>, <<\h112E3, \h112EA>>, <<\h11300, \h11301>>,
            <<\h1133B, \h1133C>>, <<\h11340, \h11340>>, <<\h11366, \h1136C>>,
            <<\h11370, \h11374>>, <<\h113BB, \h113C0>>, <<\h113CE, \h113CE>>,
            <<\h113D0, \h113D0>>, <<\h113D2, \h113D2>>, <<\h113E1, \h113E2>>,
            <<\h11438, \h1143F>>, <<\h11442, \h11444>>, <<\h11446, \h11446>>,
            <<\h1145E, \h1145E>>, <<\h114B3, \h114B8>>, <<\h114BA, \h114BA>>,
            <<\h114BF, \h114C0>>, <<\h114C2, \h114C3>>, <<\h115B2, \h115B5>>,
            <<\h115BC, \h115BD>>, <<\h115BF, \h115C0>>, <<\h115DC, \h115DD>>,
            <<\h11633, \h1163A>>, <<\h1163D, \h1163D>>, <<\h1163F, \h11640>>,
            <<\h116AB, \h116AB>>, <<\h116AD, \h116AD>>, <<\h116B0, \h116B5>>,
            <<\h116B7, \h116B7>>, <<\h1171D, \h1171D>>, <<\h1171F, \h1171F>>,
            <<\h11722, \h11725>>, <<\h11727, \h1172B>>, <<\h1182F, \h11837>>,
            <<\h11839, \h1183A>>, <<\h1193B, \h1193C>>, <<\h1193E, \h1193E>>,
            <<\h11943, \h11943>>, <<\h119D4, \h119D7>>, <<\h119DA, \h119DB>>,
            <<\h119E0, \h119E0>>, <<\h11A01, \h11A0A>>, <<\h11A33, \h11A38>>,
            <<\h11A3B, \h11A3E>>, <<\h11A47, \h11A47>>, <<\h11A51, \h11A56>>,
            <<\h11A59, \h11A5B>>, <<\h11A8A, \h11A96>>, <<\h11A98, \h11A99>>,
            <<\h11B60, \h11B60>>, <<\h11B62, \h11B64>>, <<\h11B66, \h11B66>>,
            <<\h11C30, \h11C36>>, <<\h11C38, \h11C3D>>, <<\h11C3F, \h11C3F>>,
            <<\h11C92, \h11CA7>>, <<\h11CAA, \h11CB0>>, <<\h11CB2, \h11CB3>>,
            <<\h11CB5, \h11CB6>>, <<\h11D31, \h11D36>>, <<\h11D3A, \h11D3A>>,
            <<\h11D3C, \h11D3D>>, <<\h11D3F, \h11D45>>, <<\h11D47, \h11D47>>,
            <<\h11D90, \h11D91>>, <<\h11D95, \h11D95>>, <<\h11D97, \h11D97>>,
            <<\h11DD9, \h11DD9>>, <<\h11EF3, \h11EF4>>, <<\h11F00, \h11F01>>,
            <<\h11F36, \h11F3A>>, <<\h11F40, \h11F40>>, <<\h11F42, \h11F42>>,
            <<\h11F5A, \h11F5A>>, <<\h13430, \h13440>>, <<\h13447, \h13455>>,
            <<\h1611E, \h16129>>, <<\h1612D, \h1612F>>, <<\h16AF0, \h16AF4>>,
            <<\h16B30, \h16B36>>, <<\h16B40, \h16B43>>, <<\h16D40, \h16D42>>,
            <<\h16D6B, \h16D6C>>, <<\h16F4F, \h16F4F>>, <<\h16F8F, \h16F9F>>,
            <<\h16FE0, \h16FE1>>, <<\h16FE3, \h16FE4>>, <<\h16FF2, \h16FF3>>,
            <<\h1AFF0, \h1AFF3>>, <<\h1AFF5, \h1AFFB>>, <<\h1AFFD, \h1AFFE>>,
            <<\h1BC9D, \h1BC9E>>, <<\h1BCA0, \h1BCA3>>, <<\h1CF00, \h1CF2D>>,
            <<\h1CF30, \h1CF46>>, <<\h1D167, \h1D169>>, <<\h1D173, \h1D182>>,
            <<\h1D185, \h1D18B>>, <<\h1D1AA, \h1D1AD>>, <<\h1D242, \h1D244>>,
            <<\h1DA00, \h1DA36>>, <<\h1DA3B, \h1DA6C>>, <<\h1DA75, \h1DA75>>,
            <<\h1DA84, \h1DA84>>, <<\h1DA9B, \h1DA9F>>, <<\h1DAA1, \h1DAAF>>,
            <<\h1E000, \h1E006>>, <<\h1E008, \h1E018>>, <<\h1E01B, \h1E021>>,
            <<\h1E023, \h1E024>>, <<\h1E026, \h1E02A>>, <<\h1E030, \h1E06D>>,
            <<\h1E08F, \h1E08F>>, <<\h1E130, \h1E13D>>, <<\h1E2AE, \h1E2AE>>,
            <<\h1E2EC, \h1E2EF>>, <<\h1E4EB, \h1E4EF>>, <<\h1E5EE, \h1E5EF>>,
            <<\h1E6E3, \h1E6E3>>, <<\h1E6E6, \h1E6E6>>, <<\h1E6EE, \h1E6EF>>,
            <<\h1E6F5, \h1E6F5>>, <<\h1E6FF, \h1E6FF>>, <<\h1E8D0, \h1E8D6>>,
            <<\h1E944, \h1E94B>>, <<\h1F3FB, \h1F3FF>>, <<\hE0001, \hE0001>>,
            <<\hE0020, \hE007F>>, <<\hE0100, \hE01EF>>} :
        r[1] <= cp /\ cp <= r[2]

\* String.prototype.toLowerCase: every code point, a surrogate pair being one
\* code point, becomes its lower-case letter. Two code points depend on more:
\* U+0130 becomes i followed by U+0307, and the capital sigma, U+03A3, becomes
\* the final sigma U+03C2 where a cased letter stands before it and none after
\* it, case-ignorable code points in between being passed over, and U+03C3
\* elsewhere.
toLowerCase(s) ==
    LET high(u) == u \in \hD800..\hDBFF
        low(u) == u \in \hDC00..\hDFFF
        \* the code points of the code units us
        points(us) ==
            LET point(i) ==
                    IF high(us[i]) /\ i < Len(us) /\ low(us[i + 1])
                    THEN \h10000 + (us[i] - \hD800) * \h400 + (us[i + 1] - \hDC00)
                    ELSE us[i]
                starts == SelectSeq([i \in 1..Len(us) |-> i],
                                    LAMBDA i : ~(i > 1 /\ low(us[i]) /\ high(us[i - 1])))
            IN  [k \in 1..Len(starts) |-> point(starts[k])]
        \* a cased letter stands at i or, case-ignorable code points being
        \* passed over, beyond i in the direction of step
        RECURSIVE casedFrom(_, _, _)
        casedFrom(cps, i, step) ==
            /\ i \in 1..Len(cps)
            /\ IF CaseIgnorable(cps[i]) THEN casedFrom(cps, i + step, step)
               ELSE Cased(cps[i])
        \* the code point that stands for the capital sigma at i: the final
        \* sigma when a cased letter is found before i and none after i
        sigma(cps, i) ==
            IF \A step \in {-1, 1} : casedFrom(cps, i + step, step) <=> step = -1
            THEN \h03C2 ELSE \h03C3
        lower(cps, i) ==
            IF cps[i] < 128 THEN IF cps[i] \in \h41..\h5A THEN cps[i] + 32 ELSE cps[i]
            ELSE IF cps[i] = \h03A3 THEN sigma(cps, i)
            ELSE LowerCase(cps[i])
        \* the code units of a code point
        units(cp) ==
            IF cp >= \h10000
            THEN <<\hD800 + (cp - \h10000) \div \h400, \hDC00 + ((cp - \h10000) % \h400)>>
            ELSE <<cp>>
        lowered(cps) ==
            [i \in 1..Len(cps) |->
                FromCodeUnits(IF cps[i] = \h0130 THEN <<\h0069, \h0307>>
                              ELSE units(lower(cps, i)))]
    IN  Concat(lowered(points(CodeUnits(s))))

\* The decimal digits of a natural number.
RECURSIVE Digits(_)
Digits(n) ==
    LET d == <<"0", "1", "2", "3", "4", "5", "6", "7", "8", "9">>
    IN  IF n < 10 THEN d[n + 1] ELSE Digits(n \div 10) \o d[(n % 10) + 1]

\* String(v), the conversion `text += v` applies: an array is its items joined
\* by commas, null and undefined items giving nothing; an object is
\* "[object Object]" by the toString it inherits, and the conversion throws
\* when the object has a toString property of its own, which, coming from
\* JSON, is no function.
RECURSIVE StringOf(_)
StringOf(v) ==
    LET RECURSIVE join(_)
        join(items) ==
            IF items = <<>> THEN Returned("")
            ELSE LET head == IF Head(items).t \in {"null", "undefined"} THEN Returned("")
                             ELSE StringOf(Head(items))
                     rest == join(Tail(items))
                 IN  IF ~head.ok THEN head
                     ELSE IF ~rest.ok THEN rest
                     ELSE Returned(head.value
                                   \o (IF Len(items) > 1 THEN "," \o rest.value ELSE ""))
    IN  CASE v.t = "string" -> Returned(v.s)
          [] v.t = "number" ->
               Returned(IF v.n < 0 THEN "-" \o Digits(0 - v.n) ELSE Digits(v.n))
          [] v.t = "boolean" -> Returned(IF v.b THEN "true" ELSE "false")
          [] v.t = "array" -> join(v.items)
          [] v.t \in {"null", "undefined"} -> Returned(v.t)
          [] OTHER ->
               IF Prop(v, "toString").t # "undefined"
               THEN Thrown(ErrorObj("TypeError", "Cannot convert object to primitive value"))
               ELSE Returned("[object Object]")


\* `value > 0`, the comparison of line 231: true, false, or the TypeError of a
\* value that has no primitive. The value is made a number first: null is 0,
\* true is 1, an array or an object is the number of the string it converts
\* to, and a string is the number it spells, after its white space is cut off
\* at both ends: nothing spells 0; an optional sign with Infinity or with
\* decimal digits, that may hold a point and may end in an exponent, spells
\* that number; 0x, 0o or 0b with digits of that base spells that integer;
\* anything else is not a number, as undefined is, and no number is compared
\* true with. A decimal number below the smallest one a double can hold is 0.
GreaterThanZero(value) ==
    LET space == {9, 10, 11, 12, 13, 32, \h00A0, \h1680, \h2028, \h2029, \h202F,
                  \h205F, \h3000, \hFEFF} \cup (\h2000..\h200A)
        decimal == 48..57
        \* the number of items at the front of us that are in set
        run(us, set) ==
            CHOOSE n \in 0..Len(us) : /\ \A i \in 1..n : us[i] \in set
                                      /\ n = Len(us) \/ us[n + 1] \notin set
        trim(us) ==
            LET back(rest) == [i \in 1..Len(rest) |-> rest[Len(rest) + 1 - i]]
                front(rest) == SubSeq(rest, 1, Len(rest) - run(back(rest), space))
            IN  front(SubSeq(us, run(us, space) + 1, Len(us)))
        After(us, n) == SubSeq(us, n + 1, Len(us))
        \* 2^-1075, half the smallest double, is these digits times 10^-1075
        half ==
            "247032822920623272088284396434110686182529901307162382212792841250337753" \o
            "635104375932649918180817996189898282347722858865463328355177969898199387" \o
            "398005390939063150356595155702263922908583924491051844359318028499365361" \o
            "525003193704576782492193656236698636584807570015857692699037063119282795" \o
            "585513329278343384093519780155312465972635795746227664652728272200563740" \o
            "064854999770965994704540208281662262378573934507363390079677619305775067" \o
            "401763246736009689513405355374585166611342237666786041621596804619144672" \o
            "918403005300575308490487653917113865916462395249126236538818796362393732" \o
            "804238910186723484976682350898633885879256283027559956575244555072551893" \o
            "136908362547791869486679949683240497058210285131854513962138377228261454" \o
            "37693412532098591327667236328125"
        halfDigit(i) ==
            IF i > Len(half) THEN 48
            ELSE 48 + (CHOOSE d \in 0..9 :
                           SubSeq("0123456789", d + 1, d + 1) = SubSeq(half, i, i))
        \* the digits a, read as a number d.ddd times 10^-324, exceed 2^-1075
        aboveHalf(a) ==
            LET digit(i) == IF i <= Len(a) THEN a[i] ELSE 48
            IN  \E i \in 1..(Len(a) + Len(half)) :
                    /\ digit(i) > halfDigit(i)
                    /\ \A j \in 1..(i - 1) : digit(j) = halfDigit(j)
        RECURSIVE number(_)
        number(digits) ==
            IF digits = <<>> THEN 0
            ELSE 10 * number(SubSeq(digits, 1, Len(digits) - 1)) + digits[Len(digits)] - 48
        \* the exponent us spells, cut at a million either way
        exponent(us) ==
            LET magnitude(digits) ==
                    IF Len(digits) > 6 THEN 1000000 ELSE number(digits)
                signed(sign, digits) ==
                    sign * magnitude(After(digits, run(digits, {48})))
            IN  signed(IF us # <<>> /\ Head(us) = 45 THEN -1 ELSE 1,
                       IF us # <<>> /\ Head(us) \in {43, 45} THEN Tail(us) ELSE us)
        \* us is an optional sign and one decimal digit or more
        signedDigits(us) ==
            \E sign \in 0..1 :
                /\ sign = 1 <=> (us # <<>> /\ Head(us) \in {43, 45})
                /\ Len(us) > sign
                /\ \A i \in (sign + 1)..Len(us) : us[i] \in decimal
        \* us, without sign, spells a decimal number, and that number is not 0.
        \* It is w digits, a point if p is 1, f digits and rest, which is
        \* nothing or an exponent (\E x \in {e} gives the value e the name x);
        \* with z zeros before its first other digit, it is d.ddd times 10 to
        \* the power named below.
        positiveDecimal(us) ==
            \E w \in {run(us, decimal)} :
            \E p \in {IF w < Len(us) /\ us[w + 1] = 46 THEN 1 ELSE 0} :
            \E f \in {IF p = 1 THEN run(After(us, w + 1), decimal) ELSE 0} :
            \E rest \in {After(us, w + p + f)} :
            \E digits \in {SubSeq(us, 1, w) \o SubSeq(us, w + p + 1, w + p + f)} :
            \E z \in {run(digits, {48})} :
                /\ w + f > 0
                /\ rest = <<>> \/ (Head(rest) \in {69, 101} /\ signedDigits(Tail(rest)))
                /\ z < Len(digits)
                /\ \E power \in {w - z - 1
                                 + exponent(IF rest = <<>> THEN <<>> ELSE Tail(rest))} :
                       power > -324 \/ (power = -324 /\ aboveHalf(After(digits, z)))
        \* us spells an integer of another base that is not 0
        positiveInBase(us) ==
            \E base \in {CASE us[2] \in {88, 120} -> (48..57) \cup (65..70) \cup (97..102)
                           [] us[2] \in {79, 111} -> 48..55
                           [] us[2] \in {66, 98} -> 48..49
                           [] OTHER -> {}} :
                /\ Len(us) > 2
                /\ \A i \in 3..Len(us) : us[i] \in base
                /\ \E i \in 3..Len(us) : us[i] # 48
        \* us, without white space at its ends, spells a number above 0
        positiveString(us) ==
            /\ us # <<>>
            /\ Head(us) # 45
            /\ \E unsigned \in {IF Head(us) = 43 THEN Tail(us) ELSE us} :
                   \/ unsigned = <<73, 110, 102, 105, 110, 105, 116, 121>>
                   \/ IF Len(us) >= 2 /\ us[1] = 48 /\ us[2] \notin decimal \cup {46, 69, 101}
                      THEN positiveInBase(us)
                      ELSE positiveDecimal(unsigned)
        ofText(text) ==
            IF text.ok THEN Returned(positiveString(trim(CodeUnits(text.value)))) ELSE text
    IN  CASE value.t = "number" -> Returned(value.n > 0)
          [] value.t = "boolean" -> Returned(value.b)
          [] value.t \in {"null", "undefined"} -> Returned(FALSE)
          [] OTHER -> ofText(StringOf(value))

\* The properties of an object in the order JSON.stringify writes them: the
\* names that are array indices, the integers from 0 to 2^32 - 2 written in
\* decimal without a leading zero, in ascending order, then the other names in
\* the order in which they were written. That order is the field keys of the
\* object; for an object without it, the properties the chat types declare
\* are taken in the order of their declaration (ChatMessage, ChatContentPart)
\* and any other property after them.
KeysOf(obj) ==
    LET RECURSIVE lexLess(_, _)
        lexLess(a, b) ==
            a # <<>> /\ (Head(a) < Head(b) \/ (Head(a) = Head(b) /\ lexLess(Tail(a), Tail(b))))
        \* the digits a spell a smaller number than the digits b
        smaller(a, b) == Len(a) < Len(b) \/ (Len(a) = Len(b) /\ lexLess(a, b))
        below(a, b) == smaller(CodeUnits(a), CodeUnits(b))
        index(us) ==
            /\ us # <<>>
            /\ \A i \in 1..Len(us) : us[i] \in 48..57
            /\ Len(us) = 1 \/ us[1] # 48
            /\ smaller(us, <<52, 50, 57, 52, 57, 54, 55, 50, 57, 53>>)
        RECURSIVE ascending(_)
        ascending(set) ==
            IF set = {} THEN <<>>
            ELSE LET rest(k) == <<k>> \o ascending(set \ {k})
                 IN  rest(CHOOSE x \in set : \A y \in set \ {x} : below(x, y))
        RECURSIVE written(_, _)
        written(order, left) ==
            IF order # <<>>
            THEN (IF Head(order) \in left THEN <<Head(order)>> ELSE <<>>)
                 \o written(Tail(order), left \ {Head(order)})
            ELSE IF left = {} THEN <<>>
            ELSE LET rest(k) == <<k>> \o written(<<>>, left \ {k})
                 IN  rest(CHOOSE x \in left : TRUE)
        ordered(names, indices) ==
            ascending(indices)
            \o written((IF "keys" \in DOMAIN obj THEN obj.keys ELSE <<>>)
                       \o <<"role", "content", "tool_call_id", "tool_calls",
                            "type", "text", "image_url", "url", "detail">>,
                       names \ indices)
        indexed(names) == ordered(names, {k \in names : index(CodeUnits(k))})
    IN  indexed({k \in DOMAIN obj \ {"t", "keys"} : obj[k].t # "undefined"})

\* JSON.stringify(v): a string is quoted, and inside it the quote and the
\* backslash are written with a backslash before them, a control character is
\* written as a backslash and b, t, n, f or r, or as a backslash, u and the
\* four hexadecimal digits of its code in small letters, and so is half a
\* surrogate pair on its own; in an array undefined is written null; in an
\* object a property whose value is undefined is left out.
RECURSIVE JSONstringify(_)
JSONstringify(v) ==
    LET \* the code of a hexadecimal digit, 0 to 9 and a to f
        hex(n) == IF n < 10 THEN 48 + n ELSE 87 + n
        quoted(str) ==
            LET surrogate(us, i, set) == i \in 1..Len(us) /\ us[i] \in set
                \* half a surrogate pair without its other half
                alone(us, i) ==
                    \/ /\ surrogate(us, i, \hD800..\hDBFF)
                       /\ ~surrogate(us, i + 1, \hDC00..\hDFFF)
                    \/ /\ surrogate(us, i, \hDC00..\hDFFF)
                       /\ ~surrogate(us, i - 1, \hD800..\hDBFF)
                \* the code units written for the code unit u
                escape(u, single) ==
                    CASE u \in {34, 92} -> <<92, u>>
                      [] u = 8 -> <<92, 98>>
                      [] u = 9 -> <<92, 116>>
                      [] u = 10 -> <<92, 110>>
                      [] u = 12 -> <<92, 102>>
                      [] u = 13 -> <<92, 114>>
                      [] u < 32 \/ single ->
                           <<92, 117, hex(u \div 4096), hex((u \div 256) % 16),
                             hex((u \div 16) % 16), hex(u % 16)>>
                      [] OTHER -> <<u>>
                escaped(us) ==
                    [i \in 1..Len(us) |-> FromCodeUnits(escape(us[i], alone(us, i)))]
            IN  "\"" \o Concat(escaped(CodeUnits(str))) \o "\""
        RECURSIVE items(_)
        items(seq) ==
            IF seq = <<>> THEN ""
            ELSE (IF Head(seq).t = "undefined" THEN "null" ELSE JSONstringify(Head(seq)))
                 \o (IF Len(seq) > 1 THEN "," \o items(Tail(seq)) ELSE "")
        RECURSIVE members(_)
        members(keys) ==
            IF keys = <<>> THEN ""
            ELSE quoted(Head(keys)) \o ":" \o JSONstringify(v[Head(keys)])
                 \o (IF Len(keys) > 1 THEN "," \o members(Tail(keys)) ELSE "")
    IN  CASE v.t = "string" -> quoted(v.s)
          [] v.t = "number" -> IF v.n < 0 THEN "-" \o Digits(0 - v.n) ELSE Digits(v.n)
          [] v.t = "boolean" -> IF v.b THEN "true" ELSE "false"
          [] v.t = "array" -> "[" \o items(v.items) \o "]"
          [] v.t = "null" -> "null"
          [] OTHER -> "{" \o members(KeysOf(v)) \o "}"

\* A request body that is a JSON object: its three fields that the endpoint reads.
ReqObj(model, input, stream) ==
    [t |-> "request", model |-> model, input |-> input, stream |-> stream]

\* req.model, req.input, ... on a value that passed the object test: a JSON
\* object has the fields it was sent with (Undefined when absent), an array has
\* none of them.
Field(v, name) ==
    IF v.t = "request" /\ name \in DOMAIN v THEN v[name] ELSE Undefined

\* ------------------------------------------------------- request validation

\* validateRequest without its last test, the shape of input.
validateRequestNoShapeCheck(request) ==
    IF Falsy(request) \/ TypeOf(request) # "object"
    THEN Thrown(ErrorObj("Error", "Request body must be a JSON object"))
    ELSE IF Falsy(Field(request, "model")) \/ TypeOf(Field(request, "model")) # "string"
    THEN Thrown(ErrorObj("Error", "'model' field is required and must be a string"))
    ELSE IF Field(request, "input").t \in {"undefined", "null"}
    THEN Thrown(ErrorObj("Error", "'input' field is required"))
    ELSE Returned(request)

validateRequest(request) ==
    IF Falsy(request) \/ TypeOf(request) # "object"
    THEN Thrown(ErrorObj("Error", "Request body must be a JSON object"))
    ELSE IF Falsy(Field(request, "model")) \/ TypeOf(Field(request, "model")) # "string"
    THEN Thrown(ErrorObj("Error", "'model' field is required and must be a string"))
    ELSE IF Field(request, "input").t \in {"undefined", "null"}
    THEN Thrown(ErrorObj("Error", "'input' field is required"))
    ELSE IF TypeOf(Field(request, "input")) # "string" /\ Field(request, "input").t # "array"
    THEN Thrown(ErrorObj("Error", "'input' must be a string or an array of messages"))
    ELSE Returned(request)

\* ------------------------------------------------------- request translator

\* provider/name, a qualified model string.
Qualified(provider, name) == ModelName(provider \o "/" \o name, <<provider, name>>)

\* The own properties of the lookup table MODEL_MAP: lines 30-63.
MODEL_MAP ==
    [k \in {"gpt-4o", "gpt-4o-mini", "gpt-4-turbo", "gpt-4", "gpt-3.5-turbo",
            "o1", "o1-mini", "o1-preview", "o3-mini",
            "claude-3-5-sonnet", "claude-3.5-sonnet", "claude-3-opus",
            "claude-3-sonnet", "claude-3-haiku",
            "llama-3.1-70b", "llama-3.1-8b", "llama-3.2-90b",
            "gemini-pro", "gemini-1.5-pro", "gemini-1.5-flash",
            "mistral-large", "mistral-medium", "mixtral-8x7b"} |->
        CASE k \in {"gpt-4o", "gpt-4o-mini", "gpt-4-turbo", "gpt-4", "gpt-3.5-turbo",
                    "o1", "o1-mini", "o1-preview", "o3-mini"} -> Qualified("openai", k)
          [] k \in {"claude-3-5-sonnet", "claude-3.5-sonnet"} ->
                 Qualified("anthropic", "claude-3.5-sonnet")
          [] k \in {"claude-3-opus", "claude-3-sonnet", "claude-3-haiku"} ->
                 Qualified("anthropic", k)
          [] k \in {"llama-3.1-70b", "llama-3.1-8b"} -> Qualified("meta-llama", k \o "-instruct")
          [] k = "llama-3.2-90b" -> Qualified("meta-llama", "llama-3.2-90b-vision-instruct")
          [] k = "gemini-pro" -> Qualified("google", "gemini-pro")
          [] k = "gemini-1.5-pro" -> Qualified("google", "gemini-pro-1.5")
          [] k = "gemini-1.5-flash" -> Qualified("google", "gemini-flash-1.5")
          [] k \in {"mistral-large", "mistral-medium"} -> Qualified("mistralai", k)
          [] k = "mixtral-8x7b" -> Qualified("mistralai", "mixtral-8x7b-instruct")]

\* MODEL_MAP is an object literal, so it inherits the properties of
\* Object.prototype: these keys are found by a lookup although the table does
\* not list them.
ObjectPrototypeKeys ==
    {"constructor", "toString", "toLocaleString", "valueOf", "hasOwnProperty",
     "isPrototypeOf", "propertyIsEnumerable", "__proto__",
     "__defineGetter__", "__defineSetter__", "__lookupGetter__", "__lookupSetter__"}

\* table[key] on an object literal: an own property, an inherited one (a
\* function, or the prototype object for __proto__), or undefined.
PropertyLookup(table, key) ==
    IF key \in DOMAIN table THEN table[key]
    ELSE IF key = "__proto__" THEN [t |-> "object"]
    ELSE IF key \in ObjectPrototypeKeys THEN [t |-> "function", name |-> key]
    ELSE Undefined

\* mapModelName(model): lines 68-83. model.includes("/") is read off the split.
mapModelName(model) ==
    IF Len(model.split) > 1 THEN model
    ELSE LET mapped == PropertyLookup(MODEL_MAP, toLowerCase(model.s))
         IN  IF ~Falsy(mapped) THEN mapped
             ELSE Qualified("openai", model.s)

\* The TypeError of `for (const x of name)` on a value that cannot be iterated.
NotIterable(name) == ErrorObj("TypeError", name \o " is not iterable")

\* The TypeError of reading property prop of value, which is null or undefined.
NullRead(value, prop) ==
    ErrorObj("TypeError",
             "Cannot read properties of " \o value.t \o " (reading '" \o prop \o "')")

\* The first item of a sequence that is null or undefined, as a sequence of
\* one, or the empty sequence when there is none: the item at which a loop
\* reading a property of every item stops.
RECURSIVE firstNullish(_)
firstNullish(items) ==
    IF items = <<>> THEN <<>>
    ELSE IF Head(items).t \in {"null", "undefined"} THEN <<Head(items)>>
    ELSE firstNullish(Tail(items))

\* The loop body of convertContent for one part: the converted part, or nothing.
convertPart(part) ==
    IF Prop(part, "type") = Str("input_text") /\ ~Falsy(Prop(part, "text"))
    THEN <<[type |-> "text", text |-> Prop(part, "text")]>>
    ELSE IF Prop(part, "type") = Str("input_image") /\ ~Falsy(Prop(part, "image_url"))
    THEN <<[type |-> "image_url", image_url |-> [url |-> Prop(part, "image_url")]]>>
    ELSE <<>>

\* The loop of convertContent pushing the converted parts in front.
RECURSIVE convertPartsReversed(_)
convertPartsReversed(parts) ==
    IF parts = <<>> THEN <<>>
    ELSE convertPartsReversed(Tail(parts)) \o convertPart(Head(parts))

RECURSIVE convertParts(_)
convertParts(parts) ==
    IF parts = <<>> THEN <<>>
    ELSE convertPart(Head(parts)) \o convertParts(Tail(parts))

\* convertContent(content): lines 133-161.
convertContent(content) ==
    IF content.t = "string" THEN Returned(content)
    ELSE IF content.t # "array" THEN Thrown(NotIterable("content"))
    ELSE IF firstNullish(content.items) # <<>>
    THEN Thrown(NullRead(firstNullish(content.items)[1], "type"))
    ELSE Returned(Arr(convertParts(content.items)))

\* The system message of convertInputToMessages under the test `!== undefined`.
systemMessageIfDefined(instructions) ==
    IF instructions.t # "undefined"
    THEN <<[role |-> Str("system"), content |-> instructions]>>
    ELSE <<>>

\* Lines 101-107: the system message is pushed when instructions is truthy.
systemMessage(instructions) ==
    IF ~Falsy(instructions)
    THEN <<[role |-> Str("system"), content |-> instructions]>>
    ELSE <<>>

\* The loop of lines 119-125 giving every turn the role user.
RECURSIVE convertTurnsAsUser(_)
convertTurnsAsUser(turns) ==
    IF turns = <<>> THEN Returned(<<>>)
    ELSE IF Head(turns).t \in {"null", "undefined"} THEN Thrown(NullRead(Head(turns), "role"))
    ELSE LET content == convertContent(Prop(Head(turns), "content"))
             rest == convertTurnsAsUser(Tail(turns))
         IN  IF ~content.ok THEN content
             ELSE IF ~rest.ok THEN rest
             ELSE Returned(<<[role |-> Str("user"), content |-> content.value]>> \o rest.value)

\* The loop of lines 119-125: the turns are converted in order, and the first
\* turn that cannot be read or converted ends the call with its error.
RECURSIVE convertTurns(_)
convertTurns(turns) ==
    IF turns = <<>> THEN Returned(<<>>)
    ELSE IF Head(turns).t \in {"null", "undefined"} THEN Thrown(NullRead(Head(turns), "role"))
    ELSE LET content == convertContent(Prop(Head(turns), "content"))
             rest == convertTurns(Tail(turns))
         IN  IF ~content.ok THEN content
             ELSE IF ~rest.ok THEN rest
             ELSE Returned(<<[role |-> Prop(Head(turns), "role"),
                              content |-> content.value]>> \o rest.value)

\* convertInputToMessages(input, instructions): lines 95-128.
convertInputToMessages(input, instructions) ==
    IF input.t = "string"
    THEN Returned(systemMessage(instructions) \o <<[role |-> Str("user"), content |-> input]>>)
    ELSE IF input.t # "array" THEN Thrown(NotIterable("input"))
    ELSE LET turns == convertTurns(input.items)
         IN  IF ~turns.ok THEN turns
             ELSE Returned(systemMessage(instructions) \o turns.value)

unsupportedTypes == {Str("web_search_preview"), Str("file_search"), Str("code_interpreter")}

\* The filter of line 180.
IsFunctionTool(tool) == Prop(tool, "type") = Str("function") /\ ~Falsy(Prop(tool, "function"))

\* The conversion of a declaration that forgets its description.
convertToolNoDescription(tool) ==
    [type |-> "function",
     function |-> [name |-> Prop(tool.function, "name"),
                   description |-> Undefined,
                   parameters |-> Prop(tool.function, "parameters")]]

\* Lines 186-193: one kept declaration, converted.
convertTool(tool) ==
    [type |-> "function",
     function |-> [name |-> Prop(tool.function, "name"),
                   description |-> Prop(tool.function, "description"),
                   parameters |-> Prop(tool.function, "parameters")]]

\* convertTools that hands back the filtered list also when it is empty.
convertToolsKeepsEmpty(tools) ==
    IF firstNullish(tools) # <<>> THEN Thrown(NullRead(firstNullish(tools)[1], "type"))
    ELSE LET unsupported == SelectSeq(tools, LAMBDA tl : Prop(tl, "type") \in unsupportedTypes)
             functionTools == SelectSeq(tools, IsFunctionTool)
         IN  [ok |-> TRUE,
              value |-> Arr([i \in 1..Len(functionTools) |-> convertTool(functionTools[i])]),
              warned |-> Len(unsupported) > 0]

\* convertTools(tools) on the items of the tools array: lines 169-194. warned
\* tells whether the warning about unsupported tools was printed.
convertTools(tools) ==
    IF firstNullish(tools) # <<>> THEN Thrown(NullRead(firstNullish(tools)[1], "type"))
    ELSE LET unsupported == SelectSeq(tools, LAMBDA tl : Prop(tl, "type") \in unsupportedTypes)
             functionTools == SelectSeq(tools, IsFunctionTool)
         IN  [ok |-> TRUE,
              value |-> IF Len(functionTools) = 0 THEN Undefined
                        ELSE Arr([i \in 1..Len(functionTools) |-> convertTool(functionTools[i])]),
              warned |-> Len(unsupported) > 0]

\* Lines 230-233: the tools of the outbound request. A truthy value whose
\* length compares above 0 is converted: an array by convertTools, while any
\* other value has no filter method. Anything else leaves the field unset. The
\* length of a string is the number of its code units, and of an object its
\* property length, whatever that is.
outboundTools(tools) ==
    LET unset == [ok |-> TRUE, value |-> Undefined, warned |-> FALSE]
        length == CASE tools.t = "array" -> Num(Len(tools.items))
                    [] tools.t = "string" -> Num(Len(CodeUnits(tools.s)))
                    [] OTHER -> Prop(tools, "length")
        converted(positive) ==
            IF ~positive.ok THEN positive
            ELSE IF ~positive.value THEN unset
            ELSE IF tools.t = "array" THEN convertTools(tools.items)
            ELSE Thrown(ErrorObj("TypeError", "tools.filter is not a function"))
    IN  IF Falsy(tools) THEN unset ELSE converted(GreaterThanZero(length))

\* translateRequest(responsesRequest): lines 199-241. A field the code does not
\* set, or sets to undefined, is Undefined here: JSON.stringify leaves both out
\* of the body sent upstream. warned: the unsupported-tools warning was printed.
translateRequest(responsesRequest) ==
    LET messages == convertInputToMessages(Field(responsesRequest, "input"),
                                           Field(responsesRequest, "instructions"))
        tools == outboundTools(Field(responsesRequest, "tools"))
    IN  IF ~messages.ok THEN Thrown(messages.error)
        ELSE IF ~tools.ok THEN Thrown(tools.error)
        ELSE [ok |-> TRUE,
              value |-> [model |-> mapModelName(Field(responsesRequest, "model")),
                         messages |-> messages.value,
                         temperature |-> Field(responsesRequest, "temperature"),
                         max_tokens |-> Field(responsesRequest, "max_output_tokens"),
                         top_p |-> Field(responsesRequest, "top_p"),
                         stream |-> Field(responsesRequest, "stream"),
                         tools |-> tools.value,
                         tool_choice |-> Field(responsesRequest, "tool_choice")],
              warned |-> tools.warned]

\* ------------------------------------------------------ response translator

\* Seconds since the epoch at the time of the exchange: Math.floor(Date.now() / 1000).
Now == 1700000000

\* The n-th identifier of the process, for a prefix. The source draws it from the
\* clock and Math.random; the model keeps the one property the program relies on,
\* that two calls give two identifiers.
generateId(prefix, n) == [prefix |-> prefix, serial |-> n]

\* A status mapping that fails every reason it does not know.
mapFinishReasonToStatusStrict(finishReason) ==
    IF finishReason.t # "string" THEN "failed"
    ELSE CASE finishReason.s \in {"stop", "length", "tool_calls"} -> "completed"
           [] OTHER -> "failed"

mapFinishReasonToStatus(finishReason) ==
    IF finishReason.t # "string" THEN "completed"
    ELSE CASE finishReason.s \in {"stop", "length", "tool_calls"} -> "completed"
           [] finishReason.s = "content_filter" -> "failed"
           [] OTHER -> "completed"

ZeroUsage == [input_tokens |-> 0, output_tokens |-> 0, total_tokens |-> 0]

\* A value that has an `error` property: the body of a non-2xx answer.
WithError(inner) == [t |-> "upstream_error", error |-> inner]

\* translateError(error), n identifiers having been handed out before the call.
\* `"error" in error` holds for a value built by WithError. Reading .message of
\* its error property throws when that property is null or undefined, gives
\* undefined when it is a primitive, and the field when it is a record.
translateError(error, n) ==
    LET isError == error.t = "error"
        nested == error.t = "upstream_error"
        inner == error.error
        prop(name) == IF inner.t = "object" THEN inner[name] ELSE Undefined
        errorMessage == IF isError THEN Str(error.message)
                        ELSE IF nested THEN prop("message")
                        ELSE Str("Unknown error occurred")
        errorCode == IF nested
                     THEN IF ~Falsy(prop("code")) THEN prop("code")
                          ELSE IF ~Falsy(prop("type")) THEN prop("type")
                          ELSE Str("api_error")
                     ELSE Str("internal_error")
    IN  IF ~isError /\ nested /\ inner.t \in {"null", "undefined"}
        THEN Thrown(NullRead(inner, "message"))
        ELSE Returned([id |-> generateId("resp", n + 1),
                       object |-> "response",
                       created_at |-> Now,
                       model |-> "unknown",
                       status |-> "failed",
                       output |-> <<>>,
                       usage |-> ZeroUsage,
                       error |-> [code |-> errorCode, message |-> errorMessage]])

NoState == [t |-> "undefined"]

createStreamState(model, n) ==
    [t |-> "state",
     responseId |-> generateId("resp", n + 1),
     messageId |-> generateId("msg", n + 2),
     contentPartId |-> generateId("cp", n + 3),
     model |-> model,
     createdAt |-> Now,
     accumulatedText |-> "",
     inputTokens |-> 0,
     outputTokens |-> 0,
     hasStartedOutput |-> FALSE,
     hasAddedContentPart |-> FALSE]

\* The events translateStreamChunk builds.
OutputItemAdded(st) ==
    [type |-> "response.output_item.added",
     output_index |-> 0,
     item |-> [type |-> "message", id |-> st.messageId, role |-> "assistant",
               content |-> <<>>, status |-> "in_progress"]]

ContentPartAdded ==
    [type |-> "response.content_part.added",
     output_index |-> 0,
     content_index |-> 0,
     part |-> [type |-> "output_text", text |-> ""]]

OutputTextDelta(text) ==
    [type |-> "response.output_text.delta",
     output_index |-> 0,
     content_index |-> 0,
     delta |-> text]

OutputTextDone(st) ==
    [type |-> "response.output_text.done",
     output_index |-> 0,
     content_index |-> 0,
     text |-> st.accumulatedText]

ContentPartDone(st) ==
    [type |-> "response.content_part.done",
     output_index |-> 0,
     content_index |-> 0,
     part |-> [type |-> "output_text", text |-> st.accumulatedText]]

\* The output_item.done event naming its item by the content part's identifier.
OutputItemDoneOtherId(st) ==
    [type |-> "response.output_item.done",
     output_index |-> 0,
     item |-> [type |-> "message", id |-> st.contentPartId, role |-> "assistant",
               content |-> <<[type |-> "output_text", text |-> st.accumulatedText]>>,
               status |-> "completed"]]

OutputItemDone(st) ==
    [type |-> "response.output_item.done",
     output_index |-> 0,
     item |-> [type |-> "message", id |-> st.messageId, role |-> "assistant",
               content |-> <<[type |-> "output_text", text |-> st.accumulatedText]>>,
               status |-> "completed"]]

\* The final response with status completed whatever the finish reason.
finalResponseCompleted(st, finishReason) ==
    [id |-> st.responseId,
     object |-> "response",
     created_at |-> st.createdAt,
     model |-> st.model,
     status |-> "completed",
     output |-> <<[type |-> "message", id |-> st.messageId, role |-> "assistant",
                   content |-> <<[type |-> "output_text", text |-> st.accumulatedText]>>]>>,
     usage |-> [input_tokens |-> st.inputTokens,
                output_tokens |-> st.outputTokens,
                total_tokens |-> st.inputTokens + st.outputTokens]]

finalResponse(st, finishReason) ==
    [id |-> st.responseId,
     object |-> "response",
     created_at |-> st.createdAt,
     model |-> st.model,
     status |-> mapFinishReasonToStatus(finishReason),
     output |-> <<[type |-> "message", id |-> st.messageId, role |-> "assistant",
                   content |-> <<[type |-> "output_text", text |-> st.accumulatedText]>>]>>,
     usage |-> [input_tokens |-> st.inputTokens,
                output_tokens |-> st.outputTokens,
                total_tokens |-> st.inputTokens + st.outputTokens]]

ResponseCompleted(st, finishReason) ==
    [type |-> "response.completed", response |-> finalResponse(st, finishReason)]

\* A done event whose response always has status completed.
ResponseDoneCompleted(st, finishReason) ==
    [type |-> "response.done",
     response |-> [finalResponse(st, finishReason) EXCEPT !.status = "completed"]]

ResponseDone(st, finishReason) ==
    [type |-> "response.done", response |-> finalResponse(st, finishReason)]

\* A parsed upstream chunk: a JSON object with its choices field (Undefined when
\* the object has none), each choice an object with its delta and finish_reason.
Chunk(choices) == [t |-> "object", choices |-> choices]
Choice(delta, finishReason) == [t |-> "object", delta |-> delta, finish_reason |-> finishReason]
Delta(content) == [t |-> "object", content |-> content]

\* The outcome of one translateStreamChunk call: the events returned and the state
\* as the call left it, or the TypeError the runtime raised in it.
StreamResult(events, st) == [ok |-> TRUE, events |-> events, state |-> st]
StreamThrew(error, st) == [ok |-> FALSE, error |-> error, events |-> <<>>, state |-> st]

\* The delta property of a text event, choice.delta.content as it came: the
\* events keep a string as its text and any other value as the value.
DeltaOf(choice) ==
    IF Prop(choice.delta, "content").t = "string" THEN Prop(choice.delta, "content").s
    ELSE Prop(choice.delta, "content")

\* The content block counting one output token for every fragment.
ContentBlockCountsTokens(choice, st) ==
    LET content == Prop(choice.delta, "content")
        text == StringOf(content)
        opened == IF ~st.hasStartedOutput
                  THEN [st EXCEPT !.hasStartedOutput = TRUE, !.hasAddedContentPart = TRUE]
                  ELSE st
        openers == IF ~st.hasStartedOutput
                   THEN <<OutputItemAdded(st), ContentPartAdded>>
                   ELSE <<>>
    IN  IF Falsy(content) THEN StreamResult(<<>>, st)
        ELSE IF ~text.ok THEN StreamThrew(text.error, opened)
        ELSE StreamResult(openers \o <<OutputTextDelta(DeltaOf(choice))>>,
                          [opened EXCEPT !.accumulatedText = @ \o text.value,
                                         !.outputTokens = @ + 1])

\* The content block sending the opening pair with every fragment.
ContentBlockAlwaysOpens(choice, st) ==
    LET content == Prop(choice.delta, "content")
        text == StringOf(content)
        opened == [st EXCEPT !.hasStartedOutput = TRUE, !.hasAddedContentPart = TRUE]
        openers == <<OutputItemAdded(st), ContentPartAdded>>
    IN  IF Falsy(content) THEN StreamResult(<<>>, st)
        ELSE IF ~text.ok THEN StreamThrew(text.error, opened)
        ELSE StreamResult(openers \o <<OutputTextDelta(DeltaOf(choice))>>,
                          [opened EXCEPT !.accumulatedText = @ \o text.value])

\* The content block entered for every content that is not undefined.
ContentBlockIfDefined(choice, st) ==
    LET content == Prop(choice.delta, "content")
        text == StringOf(content)
        opened == IF ~st.hasStartedOutput
                  THEN [st EXCEPT !.hasStartedOutput = TRUE, !.hasAddedContentPart = TRUE]
                  ELSE st
        openers == IF ~st.hasStartedOutput
                   THEN <<OutputItemAdded(st), ContentPartAdded>>
                   ELSE <<>>
    IN  IF content.t \in {"undefined", "null"} THEN StreamResult(<<>>, st)
        ELSE IF ~text.ok THEN StreamThrew(text.error, opened)
        ELSE StreamResult(openers \o <<OutputTextDelta(DeltaOf(choice))>>,
                          [opened EXCEPT !.accumulatedText = @ \o text.value])

\* The content block keeping only the last fragment as the accumulated text.
ContentBlockOverwrites(choice, st) ==
    LET content == Prop(choice.delta, "content")
        text == StringOf(content)
        opened == IF ~st.hasStartedOutput
                  THEN [st EXCEPT !.hasStartedOutput = TRUE, !.hasAddedContentPart = TRUE]
                  ELSE st
        openers == IF ~st.hasStartedOutput
                   THEN <<OutputItemAdded(st), ContentPartAdded>>
                   ELSE <<>>
    IN  IF Falsy(content) THEN StreamResult(<<>>, st)
        ELSE IF ~text.ok THEN StreamThrew(text.error, opened)
        ELSE StreamResult(openers \o <<OutputTextDelta(DeltaOf(choice))>>,
                          [opened EXCEPT !.accumulatedText = text.value])

\* The `if (choice.delta.content)` block: lines 172-208. The flags are set and
\* the opening pair is pushed before the text is appended at line 200; when
\* that conversion throws, the call ends there, the flags staying set and no
\* event being returned.
ContentBlock(choice, st) ==
    LET content == Prop(choice.delta, "content")
        text == StringOf(content)
        opened == IF ~st.hasStartedOutput
                  THEN [st EXCEPT !.hasStartedOutput = TRUE, !.hasAddedContentPart = TRUE]
                  ELSE st
        openers == IF ~st.hasStartedOutput
                   THEN <<OutputItemAdded(st), ContentPartAdded>>
                   ELSE <<>>
    IN  IF Falsy(content) THEN StreamResult(<<>>, st)
        ELSE IF ~text.ok THEN StreamThrew(text.error, opened)
        ELSE StreamResult(openers \o <<OutputTextDelta(DeltaOf(choice))>>,
                          [opened EXCEPT !.accumulatedText = @ \o text.value])

\* The finish block without lines 211-234: the opening pair is not made up for.
FinishBlockNoOpeners(choice, st) ==
    IF Falsy(Prop(choice, "finish_reason")) THEN [events |-> <<>>, state |-> st]
    ELSE [events |-> <<OutputTextDone(st), ContentPartDone(st), OutputItemDone(st),
                       ResponseCompleted(st, Prop(choice, "finish_reason")),
                       ResponseDone(st, Prop(choice, "finish_reason"))>>,
          state |-> [st EXCEPT !.hasStartedOutput = TRUE]]

\* The finish block sending the opening pair whether or not the output started.
FinishBlockAlwaysOpens(choice, st) ==
    IF Falsy(Prop(choice, "finish_reason")) THEN [events |-> <<>>, state |-> st]
    ELSE LET started == [st EXCEPT !.hasStartedOutput = TRUE]
         IN  [events |-> <<OutputItemAdded(st), ContentPartAdded,
                           OutputTextDone(started), ContentPartDone(started),
                           OutputItemDone(started),
                           ResponseCompleted(started, Prop(choice, "finish_reason")),
                           ResponseDone(started, Prop(choice, "finish_reason"))>>,
              state |-> started]

\* The `if (Prop(choice, "finish_reason"))` block: lines 210-305.
FinishBlock(choice, st) ==
    IF Falsy(Prop(choice, "finish_reason")) THEN [events |-> <<>>, state |-> st]
    ELSE LET started == [st EXCEPT !.hasStartedOutput = TRUE]
             openers == IF ~st.hasStartedOutput
                        THEN <<OutputItemAdded(st), ContentPartAdded>>
                        ELSE <<>>
         IN  [events |-> openers \o
                         <<OutputTextDone(started), ContentPartDone(started),
                           OutputItemDone(started),
                           ResponseCompleted(started, Prop(choice, "finish_reason")),
                           ResponseDone(started, Prop(choice, "finish_reason"))>>,
              state |-> started]

\* container.choices[0], for choices that is neither null nor undefined: the
\* first item of an array, the first code unit of a string, the property "0"
\* of an object, and undefined on anything else or when there is none.
firstChoice(container) ==
    LET choices == Prop(container, "choices")
    IN  CASE choices.t = "array" ->
               IF Len(choices.items) = 0 THEN Undefined ELSE choices.items[1]
          [] choices.t = "string" ->
               IF choices.s = "" THEN Undefined
               ELSE Str(FromCodeUnits(<<Head(CodeUnits(choices.s))>>))
          [] OTHER -> Prop(choices, "0")

\* translateStreamChunk without the guard of lines 168-170.
translateStreamChunkNoGuard(chunk, st) ==
    IF chunk.t \in {"null", "undefined"}
    THEN StreamThrew(NullRead(chunk, "choices"), st)
    ELSE IF Prop(chunk, "choices").t \in {"null", "undefined"}
    THEN StreamThrew(NullRead(Prop(chunk, "choices"), "0"), st)
    ELSE LET choice == firstChoice(chunk)
         IN  IF choice.t \in {"null", "undefined"}
             THEN StreamThrew(NullRead(choice, "delta"), st)
             ELSE IF Prop(choice, "delta").t \in {"null", "undefined"}
             THEN StreamThrew(NullRead(Prop(choice, "delta"), "content"), st)
             ELSE LET c == ContentBlock(choice, st)
                      f == FinishBlock(choice, c.state)
                  IN  IF ~c.ok THEN c ELSE StreamResult(c.events \o f.events, f.state)

\* translateStreamChunk(chunk, state): lines 165-307. Reading choices of a
\* chunk that is null or undefined throws, as do reading [0] of such choices
\* and content of such a delta; a chunk without a first choice gives no event.
translateStreamChunk(chunk, st) ==
    IF chunk.t \in {"null", "undefined"}
    THEN StreamThrew(NullRead(chunk, "choices"), st)
    ELSE IF Prop(chunk, "choices").t \in {"null", "undefined"}
    THEN StreamThrew(NullRead(Prop(chunk, "choices"), "0"), st)
    ELSE LET choice == firstChoice(chunk)
         IN  IF Falsy(choice) THEN StreamResult(<<>>, st)
             ELSE IF Prop(choice, "delta").t \in {"null", "undefined"}
             THEN StreamThrew(NullRead(Prop(choice, "delta"), "content"), st)
             ELSE LET c == ContentBlock(choice, st)
                      f == FinishBlock(choice, c.state)
                  IN  IF ~c.ok THEN c ELSE StreamResult(c.events \o f.events, f.state)

ResponsePayload(st) ==
    [id |-> st.responseId,
     object |-> "response",
     created_at |-> st.createdAt,
     model |-> st.model,
     status |-> "in_progress",
     output |-> <<>>,
     usage |-> ZeroUsage]

createResponseCreatedEvent(st) ==
    [type |-> "response.created", response |-> ResponsePayload(st)]

createResponseInProgressEvent(st) ==
    [type |-> "response.in_progress", response |-> ResponsePayload(st)]

\* formatSSE: the frame `event: <type>\ndata: <json>\n\n`, kept as its two parts.
formatSSE(event) == [event |-> event.type, data |-> event]

\* normalizeModelName(model) on a string: lines 35-42.
normalizeModelName(model) ==
    IF Len(model.split) > 1
    THEN IF model.split[Len(model.split)] # "" THEN model.split[Len(model.split)] ELSE model.s
    ELSE model.s

\* `x?.field || 0` on the usage of an upstream response: 0 for a usage that is
\* null or undefined and for a counter that is falsy, otherwise the counter, a
\* number as the number and any other value as it came.
Counter(usage, field) ==
    IF usage.t \in {"null", "undefined"} \/ Falsy(Prop(usage, field)) THEN 0
    ELSE IF Prop(usage, field).t = "number" THEN Prop(usage, field).n
    ELSE Prop(usage, field)

\* The usage record with the total computed from the two other counters.
usageOfSummed(chatResponse) ==
    [input_tokens |-> Counter(Prop(chatResponse, "usage"), "prompt_tokens"),
     output_tokens |-> Counter(Prop(chatResponse, "usage"), "completion_tokens"),
     total_tokens |-> Counter(Prop(chatResponse, "usage"), "prompt_tokens")
                      + Counter(Prop(chatResponse, "usage"), "completion_tokens")]

\* The usage record of translateResponse: lines 91-95.
usageOf(chatResponse) ==
    [input_tokens |-> Counter(Prop(chatResponse, "usage"), "prompt_tokens"),
     output_tokens |-> Counter(Prop(chatResponse, "usage"), "completion_tokens"),
     total_tokens |-> Counter(Prop(chatResponse, "usage"), "total_tokens")]

\* translateResponse after its guard, for the first choice: lines 67-97. The
\* content is read off the message, which throws when there is none; content
\* that is no string is written as JSON text. The model name of the upstream
\* response is normalised only when the caller gave none, and that call throws
\* on a name without an includes method or, for an array holding "/", without
\* a split method.
translateChoice(chatResponse, choice, originalModel, n) ==
    LET message == Prop(choice, "message")
        assistantContent == IF Falsy(Prop(message, "content")) THEN Str("")
                            ELSE Prop(message, "content")
        outputMessage ==
            [type |-> "message",
             id |-> generateId("msg", n + 1),
             role |-> "assistant",
             content |-> <<[type |-> "output_text",
                            text |-> IF assistantContent.t = "string" THEN assistantContent.s
                                     ELSE JSONstringify(assistantContent)]>>]
        upstreamModel == Prop(chatResponse, "model")
        model ==
            IF ~Falsy(originalModel)
            THEN Returned(IF originalModel.t = "string" THEN originalModel.s ELSE originalModel)
            ELSE CASE upstreamModel.t = "string" -> Returned(normalizeModelName(upstreamModel))
                   [] upstreamModel.t \in {"null", "undefined"} ->
                        Thrown(NullRead(upstreamModel, "includes"))
                   [] upstreamModel.t = "array" ->
                        IF \E i \in 1..Len(upstreamModel.items) :
                               upstreamModel.items[i].t = "string" /\ upstreamModel.items[i].s = "/"
                        THEN Thrown(ErrorObj("TypeError", "model.split is not a function"))
                        ELSE Returned(upstreamModel)
                   [] OTHER -> Thrown(ErrorObj("TypeError", "model.includes is not a function"))
    IN  IF message.t \in {"null", "undefined"} THEN Thrown(NullRead(message, "content"))
        ELSE IF ~model.ok THEN model
        ELSE Returned([id |-> generateId("resp", n + 2),
                       object |-> "response",
                       created_at |-> Prop(chatResponse, "created"),
                       model |-> model.value,
                       status |-> mapFinishReasonToStatus(Prop(choice, "finish_reason")),
                       output |-> <<outputMessage>>,
                       usage |-> usageOf(chatResponse)])

\* translateResponse that takes a missing choice for an empty message.
translateResponseNoGuard(chatResponse, originalModel, n) ==
    IF chatResponse.t \in {"null", "undefined"} THEN Thrown(NullRead(chatResponse, "choices"))
    ELSE IF Prop(chatResponse, "choices").t \in {"null", "undefined"}
    THEN Thrown(NullRead(Prop(chatResponse, "choices"), "0"))
    ELSE translateChoice(chatResponse,
                         IF Falsy(firstChoice(chatResponse))
                         THEN [t |-> "object", message |-> [t |-> "object", content |-> Null],
                               finish_reason |-> Null]
                         ELSE firstChoice(chatResponse),
                         originalModel, n)

\* translateResponse(chatResponse, originalModel), n identifiers handed out
\* before: lines 61-98.
translateResponse(chatResponse, originalModel, n) ==
    IF chatResponse.t \in {"null", "undefined"} THEN Thrown(NullRead(chatResponse, "choices"))
    ELSE IF Prop(chatResponse, "choices").t \in {"null", "undefined"}
    THEN Thrown(NullRead(Prop(chatResponse, "choices"), "0"))
    ELSE IF Falsy(firstChoice(chatResponse))
    THEN Thrown(ErrorObj("Error", "No choices in response from OpenRouter"))
    ELSE translateChoice(chatResponse, firstChoice(chatResponse), originalModel, n)

\* --------------------------------------------------- upstream streaming client

\* One line of the upstream body after trim(): blank, a comment (":..."), or a
\* "data:" line with its payload: the [DONE] marker, text JSON.parse rejects, or
\* the text of a JSON value.
BlankLine == [prefix |-> "", data |-> Undefined]
CommentLine == [prefix |-> ":", data |-> Undefined]
DataLine(data) == [prefix |-> "data:", data |-> data]
DoneMarker == [t |-> "text", text |-> "[DONE]"]
InvalidJson == [t |-> "text", text |-> "{\"choices\": [{"]
JsonText(value) == [t |-> "json", value |-> value]

\* JSON.parse(data): the value of a JSON text, or a SyntaxError. The message
\* of that error depends on the text; the catch of line 158 drops the error
\* unread, so the failure is kept without it.
JSONparse(data) ==
    IF data.t = "json" THEN Returned(data.value)
    ELSE Thrown([t |-> "error", name |-> "SyntaxError"])

\* What the body of `for (const line of lines)` does with one line: lines 137-162.
\* "skip" goes on to the next line, "return" ends the generator, "yield" hands
\* the parsed chunk to the consumer, "warn" drops the line with a warning.
processLine(line) ==
    IF line.prefix = "" \/ line.prefix = ":" THEN [do |-> "skip"]
    ELSE IF line.prefix = "data:"
    THEN IF line.data.t = "text" /\ line.data.text = "[DONE]" THEN [do |-> "return"]
         ELSE IF JSONparse(line.data).ok
         THEN [do |-> "yield", chunk |-> JSONparse(line.data).value]
         ELSE [do |-> "warn"]
    ELSE [do |-> "skip"]

\* ------------------------------------------------------------ the endpoint

\* The effects of the handler, as the log records them.
FlushHeaders == [op |-> "flushHeaders"]
Write(event) == [op |-> "write", frame |-> formatSSE(event)]
Call(fn) == [op |-> "call", fn |-> fn]
Json(status, doc) == [op |-> "json", status |-> status, body |-> doc]
End == [op |-> "end"]
Warn == [op |-> "warn"]
\* The outbound request translateRequest returned, and whether it warned.
Translated(chatRequest, warned) == [op |-> "translated", request |-> chatRequest, warned |-> warned]
\* What the upstream delivered, recorded next to the effects it caused.
Recv(line) == [op |-> "recv", line |-> line]
RecvEnd == [op |-> "recv_end"]
\* The upstream call, or a read of its body, threw this value.
RecvFailure(error) == [op |-> "recv_error", error |-> error]
\* The response createCompletion returned.
RecvResponse(response) == [op |-> "recv_response", response |-> response]

Writes(events) == [i \in 1..Len(events) |-> Write(events[i])]

\* The prologue with the upstream call started before the two events are written.
streamingPrologueCallFirst(st) ==
    <<FlushHeaders,
      Call("createStreamingCompletion"),
      Write(createResponseCreatedEvent(st)),
      Write(createResponseInProgressEvent(st))>>

\* handleStreamingRequest up to its first suspension: headers, the two bracketing
\* events, then the upstream streaming call (lines 168-187).
streamingPrologue(st) ==
    <<FlushHeaders,
      Write(createResponseCreatedEvent(st)),
      Write(createResponseInProgressEvent(st)),
      Call("createStreamingCompletion")>>

\* The chunk the handler synthesizes after the loop (lines 201-213).
EmptyStopChunk == Chunk(Arr(<<Choice(Delta(Str("")), Str("stop"))>>))

\* The handler without the fallback after the loop.
afterLoopNoFallback(st) == [effects |-> <<>>, state |-> st]

\* After the for-await loop ended normally: lines 195-219.
afterLoop(st) ==
    IF ~st.hasStartedOutput
    THEN LET r == translateStreamChunk(EmptyStopChunk, st)
         IN  [effects |-> Writes(r.events), state |-> r.state]
    ELSE [effects |-> <<>>, state |-> st]

\* A catch block that only logs the failure.
catchBlockSilent(error) == <<>>

\* The catch block of handleStreamingRequest: lines 220-232.
catchBlock(error) ==
    <<Write([type |-> "error",
             error |-> [code |-> "stream_error",
                        message |-> IF error.t = "error" THEN error.message
                                    ELSE "Unknown streaming error"]])>>

\* A finally block that leaves the connection open.
finallyBlockNone == <<>>

\* The finally block: line 235.
finallyBlock == <<End>>

\* ------------------------------------------------------------------ inputs

Turn(role, content) == [t |-> "object", role |-> role, content |-> content]

\* Requests that also carry instructions and tool declarations.
RichReq(model, input, instructions, tools) ==
    [t |-> "request", model |-> model, input |-> input, stream |-> Undefined,
     instructions |-> instructions, tools |-> tools]

FunctionTool(name, description, parameters) ==
    [t |-> "object", type |-> Str("function"),
     function |-> [t |-> "object", name |-> Str(name), description |-> description,
                   parameters |-> parameters]]
\* A declaration of type function that has no function body.
BodylessFunctionTool == [t |-> "object", type |-> Str("function")]
BuiltinTool(type) == [t |-> "object", type |-> Str(type)]

LookupTool == FunctionTool("lookup", Str("Look a word up"), [t |-> "object", type |-> Str("object")])
AddTool == FunctionTool("add", Undefined, Undefined)

Instructions == {Undefined, Str(""), Str("Be brief")}
ToolLists ==
    {Undefined, Arr(<<>>), Arr(<<LookupTool>>), Arr(<<BodylessFunctionTool>>),
     Arr(<<BuiltinTool("web_search_preview")>>),
     Arr(<<BuiltinTool("file_search"), BuiltinTool("code_interpreter")>>),
     Arr(<<BuiltinTool("web_search_preview"), LookupTool>>),
     Arr(<<AddTool, BodylessFunctionTool, BuiltinTool("file_search"), LookupTool>>),
     Arr(<<Null>>), [t |-> "object", length |-> Str("2")]}
RichInputs ==
    {Str("Say hi"), Str(""),
     Arr(<<Turn(Str("user"), Arr(<<[t |-> "object", type |-> Str("input_text"), text |-> Str("Hello")],
                                  [t |-> "object", type |-> Str("input_text"), text |-> Str("")],
                                  [t |-> "object", type |-> Str("input_image"),
                                   image_url |-> Str("https://example.com/cat.png")]>>))>>),
     Arr(<<Turn(Str("user"), Num(5))>>)}

Payloads ==
    LET Models == {Undefined, Num(4), ModelName("", <<"">>), ModelName("gpt-4o", <<"gpt-4o">>)}
        Inputs == {Undefined, Null, Num(5), Str(""), Str("Say hi"), Arr(<<>>),
                   Arr(<<Turn(Str("user"), Str("Hello"))>>), [t |-> "object"]}
        Streams == {Undefined, Bool(FALSE), Bool(TRUE)}
    IN
    {Undefined, Null, Str("hello"), Num(0), Num(7), Bool(TRUE), Arr(<<>>)}
    \cup {r \in {ReqObj(m, i, s) : m \in Models, i \in Inputs, s \in Streams} :
             ~Falsy(r.stream) => r.input \in {Undefined, Num(5), Str("Say hi")}}
    \cup {RichReq(ModelName("gpt-4o", <<"gpt-4o">>), i, ins, tl) :
             i \in RichInputs, ins \in Instructions, tl \in ToolLists}

FinishReasons == {Null, Str("stop"), Str("content_filter")}

WellFormedChunks ==
    {Chunk(Arr(<<Choice(Delta(c), f)>>)) : c \in {Undefined, Str(""), Str("a"), Str("b")},
                                        f \in FinishReasons}
    \cup {Chunk(Arr(<<Choice(Delta(Undefined), Str("length"))>>)),
          Chunk(Arr(<<Choice(Delta(Str("a")), Str("eos"))>>))}

\* Valid JSON that is not a chunk: no choices field, no choice, a choice without delta.
NoChoicesChunk == Chunk(Undefined)
EmptyChoicesChunk == Chunk(Arr(<<>>))
NoDeltaChunk == Chunk(Arr(<<Choice(Undefined, Null)>>))

UpstreamLines ==
    {BlankLine, CommentLine, DataLine(DoneMarker), DataLine(InvalidJson)}
    \cup {DataLine(JsonText(c)) :
            c \in WellFormedChunks \cup {NoChoicesChunk, EmptyChoicesChunk, NoDeltaChunk}}

\* What an upstream call can fail with: a non-2xx answer's parsed error body
\* (thrown as is, not an Error), or an exception of fetch or of reader.read().
UpstreamError(message, code, type) ==
    WithError([t |-> "object", message |-> Str(message), code |-> code, type |-> type])

FetchErrors ==
    {UpstreamError("Rate limited", Num(429), Undefined),
     UpstreamError("bad gateway", Undefined, Str("api_error")),
     ErrorObj("TypeError", "fetch failed"),
     ErrorObj("Error", "No response body for streaming")}

\* What createCompletion can throw: the body of a non-2xx answer, whatever JSON
\* value the upstream sent; the failure of fetch; and the SyntaxError of
\* response.json() on an answer without a body, which this call never tests.
CompletionErrors ==
    {UpstreamError("Rate limited", Num(429), Undefined),
     UpstreamError("bad gateway", Undefined, Str("api_error")),
     ErrorObj("TypeError", "fetch failed"),
     ErrorObj("SyntaxError", "Unexpected end of JSON input")}
    \cup {WithError(Null), WithError(Str("boom")), WithError(Num(503)),
          Null, Str("Bad Gateway"), [t |-> "object"]}

Usage(p, c, total) == [t |-> "object", prompt_tokens |-> p, completion_tokens |-> c, total_tokens |-> total]
Message(content, finishReason) ==
    [t |-> "object", message |-> [t |-> "object", content |-> content],
     finish_reason |-> finishReason]
ChatResponse(choices, usage) ==
    [t |-> "object", choices |-> Arr(choices), created |-> Now,
     model |-> ModelName("openai/gpt-4o", <<"openai", "gpt-4o">>), usage |-> usage]

ChatResponses ==
    LET Usages == {Undefined, Usage(Num(3), Num(2), Num(5)), Usage(Num(3), Num(2), Undefined),
                   Usage(Undefined, Num(2), Num(2)), Usage(Num(0), Num(0), Num(0)),
                   Usage(Num(3), Num(2), Num(9))}
    IN
    {ChatResponse(ch, u) :
        ch \in {<<>>, <<Message(Arr(<<[t |-> "object", keys |-> <<"text", "type">>,
                                       type |-> Str("text"),
                                       text |-> Str("\"Hi\"\n\\u005Cu00E9")]>>),
                                Str("stop"))>>}
               \cup {<<Message(c, f)>> :
                        c \in {Str("Hi"), Null},
                        f \in FinishReasons \cup {Str("length"), Str("tool_calls"), Str("eos")}},
        u \in Usages}

\* ------------------------------------------------------------- the machine

Init ==
    /\ body \in Payloads
    /\ pc = "received"
    /\ state = NoState
    /\ log = <<>>
    /\ reads = 0
    /\ idCounter = 0

\* The route handler calling the upstream before it validates the request.
PostResponsesCallFirst ==
    /\ pc = "received"
    /\ LET v == validateRequest(body)
       IN  IF ~v.ok
           THEN /\ log' = log \o <<Call("createCompletion"),
                                   Json(500, translateError(v.error, idCounter).value)>>
                /\ idCounter' = idCounter + 1
                /\ pc' = "finished"
                /\ UNCHANGED state
           ELSE LET tr == translateRequest(v.value)
                IN  IF ~tr.ok
                    THEN /\ log' = log \o <<Call("createCompletion"),
                                            Json(500, translateError(tr.error, idCounter).value)>>
                         /\ idCounter' = idCounter + 1
                         /\ pc' = "finished"
                         /\ UNCHANGED state
                    ELSE IF ~Falsy(v.value.stream)
                    THEN /\ state' = createStreamState(v.value.model.s, idCounter)
                         /\ idCounter' = idCounter + 3
                         /\ log' = log \o <<Translated(tr.value, tr.warned)>>
                                       \o streamingPrologue(state')
                         /\ pc' = "stream_fetch"
                    ELSE /\ log' = log \o <<Translated(tr.value, tr.warned),
                                            Call("createCompletion")>>
                         /\ pc' = "completion_fetch"
                         /\ UNCHANGED <<state, idCounter>>
    /\ UNCHANGED <<body, reads>>

\* app.post("/v1/responses") up to its first await: validation and translation,
\* then either the failure document, the start of the streaming exchange, or
\* the upstream call.
PostResponses ==
    /\ pc = "received"
    /\ LET v == validateRequest(body)
       IN  IF ~v.ok
           THEN /\ log' = log \o <<Json(500, translateError(v.error, idCounter).value)>>
                /\ idCounter' = idCounter + 1
                /\ pc' = "finished"
                /\ UNCHANGED state
           ELSE LET tr == translateRequest(v.value)
                IN  IF ~tr.ok
                    THEN /\ log' = log \o <<Json(500, translateError(tr.error, idCounter).value)>>
                         /\ idCounter' = idCounter + 1
                         /\ pc' = "finished"
                         /\ UNCHANGED state
                    ELSE IF ~Falsy(v.value.stream)
                    THEN /\ state' = createStreamState(v.value.model.s, idCounter)
                         /\ idCounter' = idCounter + 3
                         /\ log' = log \o <<Translated(tr.value, tr.warned)>>
                                       \o streamingPrologue(state')
                         /\ pc' = "stream_fetch"
                    ELSE /\ log' = log \o <<Translated(tr.value, tr.warned),
                                            Call("createCompletion")>>
                         /\ pc' = "completion_fetch"
                         /\ UNCHANGED <<state, idCounter>>
    /\ UNCHANGED <<body, reads>>

\* The upstream answers the streaming call with 2xx and a body: the reader loop starts.
StreamFetchOk ==
    /\ pc = "stream_fetch"
    /\ pc' = "stream_read"
    /\ UNCHANGED <<body, state, log, reads, idCounter>>

\* The streaming call fails before any chunk: non-2xx, no body, or fetch rejects.
StreamFetchFails ==
    /\ pc = "stream_fetch"
    /\ \E e \in FetchErrors :
          log' = log \o <<RecvFailure(e)>> \o catchBlock(e) \o finallyBlock
    /\ pc' = "finished"
    /\ UNCHANGED <<body, state, reads, idCounter>>

\* reader.read() delivers one line; the generator handles it and, when it yields
\* a chunk, the loop body of the handler translates it and writes its events.
StreamRead ==
    /\ pc = "stream_read"
    /\ reads < MaxReads
    /\ \E line \in UpstreamLines :
          LET p == processLine(line)
          IN  CASE p.do = "skip" ->
                     /\ log' = log \o <<Recv(line)>>
                     /\ UNCHANGED <<state, pc>>
                [] p.do = "warn" ->
                     /\ log' = log \o <<Recv(line), Warn>>
                     /\ UNCHANGED <<state, pc>>
                [] p.do = "return" ->
                     /\ log' = log \o <<Recv(line)>> \o afterLoop(state).effects \o finallyBlock
                     /\ state' = afterLoop(state).state
                     /\ pc' = "finished"
                [] p.do = "yield" ->
                     LET r == translateStreamChunk(p.chunk, state)
                     IN  IF r.ok
                         THEN /\ log' = log \o <<Recv(line)>> \o Writes(r.events)
                              /\ state' = r.state
                              /\ UNCHANGED pc
                         ELSE /\ log' = log \o <<Recv(line)>> \o catchBlock(r.error) \o finallyBlock
                              /\ state' = r.state
                              /\ pc' = "finished"
    /\ reads' = reads + 1
    /\ UNCHANGED <<body, idCounter>>

\* reader.read() reports the end of the body: the loop ends normally.
StreamClosed ==
    /\ pc = "stream_read"
    /\ log' = log \o <<RecvEnd>> \o afterLoop(state).effects \o finallyBlock
    /\ state' = afterLoop(state).state
    /\ pc' = "finished"
    /\ UNCHANGED <<body, reads, idCounter>>

\* reader.read() rejects: the transport failed in mid-stream.
StreamReadFails ==
    /\ pc = "stream_read"
    /\ \E e \in {ErrorObj("TypeError", "terminated")} :
          log' = log \o <<RecvFailure(e)>> \o catchBlock(e) \o finallyBlock
    /\ pc' = "finished"
    /\ UNCHANGED <<body, state, reads, idCounter>>

\* createCompletion returns a response: it is translated and sent, or the
\* translation throws and the failure document is sent.
CompletionReturns ==
    /\ pc = "completion_fetch"
    /\ \E r \in ChatResponses :
          LET tr == translateResponse(r, validateRequest(body).value.model, idCounter)
          IN  IF tr.ok
              THEN /\ log' = log \o <<RecvResponse(r), Json(200, tr.value)>>
                   /\ idCounter' = idCounter + 2
              ELSE /\ log' = log \o <<RecvResponse(r),
                                      Json(500, translateError(tr.error, idCounter).value)>>
                   /\ idCounter' = idCounter + 1
    /\ pc' = "finished"
    /\ UNCHANGED <<body, state, reads>>

\* createCompletion throws: the catch translates the failure and sends the
\* failure document; when translateError throws in the catch, the handler's
\* promise rejects and nothing is sent.
CompletionFails ==
    /\ pc = "completion_fetch"
    /\ \E e \in CompletionErrors :
          LET te == translateError(e, idCounter)
          IN  IF te.ok
              THEN /\ log' = log \o <<RecvFailure(e), Json(500, te.value)>>
                   /\ idCounter' = idCounter + 1
                   /\ pc' = "finished"
              ELSE /\ log' = log \o <<RecvFailure(e), [op |-> "reject", error |-> te.error]>>
                   /\ pc' = "rejected"
                   /\ UNCHANGED idCounter
    /\ UNCHANGED <<body, state, reads>>

Next ==
    \/ PostResponses
    \/ StreamFetchOk
    \/ StreamFetchFails
    \/ StreamRead
    \/ StreamClosed
    \/ StreamReadFails
    \/ CompletionReturns
    \/ CompletionFails

Spec == Init /\ [][Next]_vars

\* ------------------------------------------- model resolution, applied twice

\* The strings model resolution is applied to: the short names of the table,
\* names in other letter cases, among them names with capital letters beyond
\* A to Z (the Kelvin sign, the dotted capital I, a capital sigma at the end),
\* unknown names, qualified names, and names that are properties every object
\* inherits.
ModelStrings ==
    {ModelName(k, <<k>>) : k \in DOMAIN MODEL_MAP}
    \cup {ModelName(k, <<k>>) : k \in {"GPT-4o", "GPT-4O", "Claude-3-Opus", "GEMINI-PRO",
                                       "My-Model", "toString", "Constructor",
                                       "CONSTRUCTOR", "claude-3-hai\\u212Au",
                                       "\\u0130-1", "GPT-4\\u039F\\u03A3"}}
    \cup {ModelName(k, <<k>>) : k \in {"my-model", "llama-9", ""}}
    \cup {MODEL_MAP[k] : k \in DOMAIN MODEL_MAP}
    \cup {Qualified("acme", "x"), ModelName("a/b/c", <<"a", "b", "c">>), ModelName("/", <<"", "">>)}
    \cup {ModelName(k, <<k>>) : k \in ObjectPrototypeKeys \ {"toString"}}

\* mapModelName called on any value. Line 70 throws on null and undefined, and
\* on a value without an includes method; an array has one, so it is returned
\* when "/" is one of its items and fails at toLowerCase of line 75 otherwise.
callMapModelName(v) ==
    IF v.t = "string" THEN Returned(mapModelName(v))
    ELSE IF v.t \in {"null", "undefined"} THEN Thrown(NullRead(v, "includes"))
    ELSE IF v.t = "array"
    THEN IF \E i \in 1..Len(v.items) : (v.items[i].t = "string" /\ v.items[i].s = "/") THEN Returned(v)
         ELSE Thrown(ErrorObj("TypeError", "model.toLowerCase is not a function"))
    ELSE Thrown(ErrorObj("TypeError", "model.includes is not a function"))

InitResolve ==
    /\ body \in ModelStrings
    /\ pc = "resolve"
    /\ state = NoState
    /\ log = <<>>
    /\ reads = 0
    /\ idCounter = 0

\* mapModelName is applied to the model string, then to what it returned.
Resolve ==
    /\ pc = "resolve"
    /\ Len(log) < 2
    /\ Len(log) = 1 => log[1].result.ok
    /\ LET arg == IF log = <<>> THEN body ELSE log[1].result.value
       IN  log' = Append(log, [op |-> "mapModelName", arg |-> arg,
                             result |-> callMapModelName(arg)])
    /\ UNCHANGED <<body, pc, state, reads, idCounter>>

SpecResolve == InitResolve /\ [][Resolve]_vars

\* --------------------------------------------- two exchanges served at once

\* Under SpecPair the variables hold one value per exchange: body, pc, log and
\* reads are functions of the exchange, state is a function of the place where
\* a stream state is kept, and idCounter stays the process-wide count.
Exchanges == {1, 2}

\* Most upstream lines each of the concurrent exchanges receives.
MaxPairReads == 2

PairLines ==
    {CommentLine, DataLine(DoneMarker),
     DataLine(JsonText(Chunk(Arr(<<Choice(Delta(Str("a")), Null)>>)))),
     DataLine(JsonText(Chunk(Arr(<<Choice(Delta(Str("b")), Null)>>)))),
     DataLine(JsonText(Chunk(Arr(<<Choice(Delta(Undefined), Str("stop"))>>))))}

\* One stream state for the whole process, whichever exchange asks.
stateSlotShared(e) == 1

\* Where the stream state of exchange e is kept: `const state` is a local of
\* the invocation of handleStreamingRequest that serves e.
stateSlot(e) == e

\* One line delivered to an exchange whose stream state is st: the line loop of
\* the client, and for a yielded chunk the loop body of the handler. effects are
\* what the handler does, done tells whether the exchange ended.
readStep(st, line) ==
    LET p == processLine(line)
    IN  CASE p.do = "skip" -> [effects |-> <<>>, state |-> st, done |-> FALSE]
          [] p.do = "warn" -> [effects |-> <<Warn>>, state |-> st, done |-> FALSE]
          [] p.do = "return" ->
               [effects |-> afterLoop(st).effects \o finallyBlock,
                state |-> afterLoop(st).state, done |-> TRUE]
          [] p.do = "yield" ->
               LET r == translateStreamChunk(p.chunk, st)
               IN  IF r.ok
                   THEN [effects |-> Writes(r.events), state |-> r.state, done |-> FALSE]
                   ELSE [effects |-> catchBlock(r.error) \o finallyBlock,
                         state |-> r.state, done |-> TRUE]

\* The upstream body ended: the loop ends, then lines 195-236.
closeStep(st) ==
    [effects |-> afterLoop(st).effects \o finallyBlock,
     state |-> afterLoop(st).state, done |-> TRUE]

InitPair ==
    /\ body \in [Exchanges -> {ReqObj(ModelName("gpt-4o", <<"gpt-4o">>), Str("Say hi"), Bool(TRUE)),
                               ReqObj(ModelName("o1", <<"o1">>), Str("Say hi"), Bool(TRUE))}]
    /\ pc = [e \in Exchanges |-> "received"]
    /\ state = [e \in Exchanges |-> NoState]
    /\ log = [e \in Exchanges |-> <<>>]
    /\ reads = [e \in Exchanges |-> 0]
    /\ idCounter = 0

\* The route handler serves exchange e up to the upstream streaming call.
PairStart(e) ==
    /\ pc[e] = "received"
    /\ LET v == validateRequest(body[e])
           tr == translateRequest(v.value)
           st == createStreamState(v.value.model.s, idCounter)
       IN  /\ v.ok /\ tr.ok
           /\ state' = [state EXCEPT ![stateSlot(e)] = st]
           /\ log' = [log EXCEPT ![e] = <<Translated(tr.value, tr.warned)>>
                                         \o streamingPrologue(state'[stateSlot(e)])]
    /\ idCounter' = idCounter + 3
    /\ pc' = [pc EXCEPT ![e] = "stream_read"]
    /\ UNCHANGED <<body, reads>>

\* Exchange e receives one line of its upstream body and handles it.
PairRead(e) ==
    /\ pc[e] = "stream_read"
    /\ reads[e] < MaxPairReads
    /\ \E line \in PairLines :
          LET r == readStep(state[stateSlot(e)], line)
          IN  /\ log' = [log EXCEPT ![e] = @ \o <<Recv(line)>> \o r.effects]
              /\ state' = [state EXCEPT ![stateSlot(e)] = r.state]
              /\ pc' = [pc EXCEPT ![e] = IF r.done THEN "finished" ELSE "stream_read"]
    /\ reads' = [reads EXCEPT ![e] = @ + 1]
    /\ UNCHANGED <<body, idCounter>>

\* The upstream body of exchange e ends.
PairClosed(e) ==
    /\ pc[e] = "stream_read"
    /\ LET r == closeStep(state[stateSlot(e)])
       IN  /\ log' = [log EXCEPT ![e] = @ \o <<RecvEnd>> \o r.effects]
           /\ state' = [state EXCEPT ![stateSlot(e)] = r.state]
    /\ pc' = [pc EXCEPT ![e] = "finished"]
    /\ UNCHANGED <<body, reads, idCounter>>

NextPair ==
    \E e \in Exchanges :
        \/ PairStart(e)
        \/ PairRead(e)
        \/ PairClosed(e)

SpecPair == InitPair /\ [][NextPair]_vars

\* --------------------------------------------- translateStreamChunk by itself
\* The specification SpecChunk applies translateStreamChunk, call after call, to
\* the stream state of one exchange, for every chunk shape; log keeps, for each
\* call, the chunk, the state it was given, the events it returned and the state
\* it left.

\* Most calls of translateStreamChunk in one run.
MaxChunks == 3

ChunkCall(chunk, before, r) ==
    [op |-> "translateStreamChunk", chunk |-> chunk, before |-> before,
     ok |-> r.ok, events |-> r.events, after |-> r.state]

InitChunk ==
    /\ body = ReqObj(ModelName("gpt-4o", <<"gpt-4o">>), Str("Say hi"), Bool(TRUE))
    /\ pc = "stream_read"
    /\ state = createStreamState(body.model.s, 0)
    /\ log = <<>>
    /\ reads = 0
    /\ idCounter = 3

\* One call of translateStreamChunk on the state the previous calls left, for
\* every shape of parsed chunk the upstream can send; two of the texts are a
\* backslash and the characters u0041, which one after the other are six code
\* units and not the letter an escape of JavaScript source would give.
TranslateChunk ==
    /\ reads < MaxChunks
    /\ \E chunk \in WellFormedChunks \cup {NoChoicesChunk, EmptyChoicesChunk, NoDeltaChunk}
                     \cup {Chunk(Arr(<<Choice(Delta(Str(c)), Null)>>)) :
                              c \in {"\\u005C", "u0041"}} :
          LET r == translateStreamChunk(chunk, state)
          IN  /\ log' = Append(log, ChunkCall(chunk, state, r))
              /\ state' = r.state
    /\ reads' = reads + 1
    /\ UNCHANGED <<body, pc, idCounter>>

SpecChunk == InitChunk /\ [][TranslateChunk]_vars

\* ------------------------------------------------- the consumer's connection
\* The specification SpecConsumer is one streaming exchange together with what
\* the consumer's side of the connection does while the stream is open: its
\* socket stops accepting bytes (res.write returns false from then on), accepts
\* again ('drain'), or is closed ('close' on req and res). The handler takes no
\* notice of any of the three: the value of res.write is dropped at lines 180,
\* 184, 191, 217 and 224, and no listener is registered on req or res, so its
\* steps are those of Spec. log records the three events next to the effects.

\* Most times the consumer's socket stops accepting bytes in one exchange.
MaxStalls == 1

ConsumerBlocked == [op |-> "consumer_blocked"]
ConsumerDrained == [op |-> "consumer_drained"]
ConsumerClosed == [op |-> "consumer_closed"]

\* The last event of the consumer's socket in a log is of this kind.
LastConsumerEvent(entries, kind) ==
    \E i \in 1..Len(entries) :
        /\ entries[i] = kind
        /\ \A j \in (i + 1)..Len(entries) :
              entries[j] \notin {ConsumerBlocked, ConsumerDrained, ConsumerClosed}

StreamOpen == pc \in {"stream_fetch", "stream_read"}

InitConsumer ==
    /\ body = ReqObj(ModelName("gpt-4o", <<"gpt-4o">>), Str("Say hi"), Bool(TRUE))
    /\ pc = "received"
    /\ state = NoState
    /\ log = <<>>
    /\ reads = 0
    /\ idCounter = 0

\* The consumer's socket buffer is full: res.write returns false until it drains.
ConsumerBlocks ==
    /\ StreamOpen
    /\ \A i \in 1..Len(log) : log[i] # ConsumerClosed
    /\ ~LastConsumerEvent(log, ConsumerBlocked)
    /\ Cardinality({i \in 1..Len(log) : log[i] = ConsumerBlocked}) < MaxStalls
    /\ log' = Append(log, ConsumerBlocked)
    /\ UNCHANGED <<body, pc, state, reads, idCounter>>

\* The consumer's socket accepts bytes again: res emits 'drain'.
ConsumerDrains ==
    /\ StreamOpen
    /\ LastConsumerEvent(log, ConsumerBlocked)
    /\ log' = Append(log, ConsumerDrained)
    /\ UNCHANGED <<body, pc, state, reads, idCounter>>

\* The consumer closes the inbound connection: req and res emit 'close'.
ConsumerCloses ==
    /\ StreamOpen
    /\ \A i \in 1..Len(log) : log[i] # ConsumerClosed
    /\ log' = Append(log, ConsumerClosed)
    /\ UNCHANGED <<body, pc, state, reads, idCounter>>

\* reader.read() delivers one line to the exchange, whatever the consumer's
\* socket does: the loop of lines 187-193.
ConsumerStreamRead ==
    /\ pc = "stream_read"
    /\ reads < MaxPairReads
    /\ \E line \in PairLines :
          LET r == readStep(state, line)
          IN  /\ log' = log \o <<Recv(line)>> \o r.effects
              /\ state' = r.state
              /\ pc' = IF r.done THEN "finished" ELSE pc
    /\ reads' = reads + 1
    /\ UNCHANGED <<body, idCounter>>

NextConsumer ==
    \/ PostResponses
    \/ StreamFetchOk
    \/ StreamFetchFails
    \/ ConsumerStreamRead
    \/ StreamClosed
    \/ StreamReadFails
    \/ ConsumerBlocks
    \/ ConsumerDrains
    \/ ConsumerCloses

SpecConsumer == InitConsumer /\ [][NextConsumer]_vars

\* ------------------------------------------------ translating turns and parts
\* The specification SpecTranslate is the route handler up to the upstream call,
\* for requests whose input is a sequence of turns: one turn whose content is a
\* list of typed parts, or several turns with string content.

\* Most parts in the content of a turn, most turns in an input.
MaxParts == 2
MaxTurns == 2

TextPart(text) == [t |-> "object", type |-> Str("input_text"), text |-> text]
ImagePart(url) == [t |-> "object", type |-> Str("input_image"), image_url |-> url]

TranslatePayloads ==
    LET InputParts ==
            {TextPart(Str("Hello")), TextPart(Str("")),
             ImagePart(Str("https://example.com/cat.png")), ImagePart(Str("")),
             [t |-> "object", type |-> Str("input_audio"), data |-> Str("UklGRg==")]}
    IN
    {RichReq(ModelName("gpt-4o", <<"gpt-4o">>), Arr(<<Turn(Str("user"), Arr(parts))>>),
             Undefined, Undefined) : parts \in UNION {[1..k -> InputParts] : k \in 0..MaxParts}}
    \cup {RichReq(ModelName("gpt-4o", <<"gpt-4o">>), Arr(turns), ins, Undefined) :
             turns \in UNION {[1..k -> {Turn(r, c) : r \in {Str("user"), Str("assistant"), Str("system")},
                                                  c \in {Str("Hello"), Str("")}}] : k \in 0..MaxTurns},
             ins \in Instructions}

InitTranslate ==
    /\ body \in TranslatePayloads
    /\ pc = "received"
    /\ state = NoState
    /\ log = <<>>
    /\ reads = 0
    /\ idCounter = 0

SpecTranslate == InitTranslate /\ [][PostResponses]_vars

\* ------------------------------------------------- the reader of the upstream
\* The specification SpecReader is the read loop of createStreamingCompletion
\* (openrouter-client.ts 119-166) on the text of one upstream body. The text is a
\* sequence of pieces, a newline or a piece of a line, and a read delivers any
\* number of the pieces not yet delivered. In this specification body is the
\* upstream body, state holds the number of pieces delivered, the buffer of
\* the loop and the lines of the last read still to handle, and log the chunks
\* yielded and the warnings printed. The generator stops at every `yield`, so
\* pc is "stream_read" while it waits for a read, "yield" while the consumer
\* holds a chunk, "finished" once the generator has completed and "returned"
\* once the consumer has ended it.

\* Most lines in an upstream body.
MaxBodyLines == 2

\* The lines an upstream body is made of, in pieces.
ChunkLine(open) == <<"data: ", open, "}">>
DoneLine == <<"data: ", "[DONE]">>

\* line.trim() and the tests of its prefix, lines 138-147, with the text after
\* "data:" as JSON.parse will take it: the two chunk texts parse, a part of
\* them does not.
LineOf(pieces) ==
    LET DataOf(data) ==
            IF data = <<"[DONE]">> THEN DoneMarker
            ELSE IF data = <<"{a", "}">>
            THEN JsonText(Chunk(Arr(<<Choice(Delta(Str("a")), Null)>>)))
            ELSE IF data = <<"{stop", "}">>
            THEN JsonText(Chunk(Arr(<<Choice(Delta(Undefined), Str("stop"))>>)))
            ELSE InvalidJson
    IN  IF pieces = <<>> THEN BlankLine
        ELSE IF Head(pieces) = ": ping" THEN CommentLine
        ELSE IF Head(pieces) = "data: " THEN DataLine(DataOf(Tail(pieces)))
        ELSE [prefix |-> "other", data |-> Undefined]

RECURSIVE Joined(_)
Joined(lines) ==
    IF lines = <<>> THEN <<>> ELSE Head(lines) \o <<"\n">> \o Joined(Tail(lines))

\* The upstream bodies: up to MaxBodyLines lines, each ended by a newline,
\* except, in half of the bodies, the last one.
UpstreamBodies ==
    LET BodyLines == {ChunkLine("{a"), ChunkLine("{stop"), DoneLine, <<": ping">>, <<>>}
        lineSeqs == UNION {[1..k -> BodyLines] : k \in 0..MaxBodyLines}
    IN  {Joined(ls) : ls \in lineSeqs}
        \cup {SubSeq(Joined(ls), 1, Len(Joined(ls)) - 1) : ls \in lineSeqs \ {<<>>}}

\* buffer.split("\n"): the pieces between the newlines, the last line being what
\* follows the last newline.
RECURSIVE split(_, _, _)
split(text, lines, current) ==
    IF text = <<>> THEN Append(lines, current)
    ELSE IF Head(text) = "\n" THEN split(Tail(text), Append(lines, current), <<>>)
    ELSE split(Tail(text), lines, Append(current, Head(text)))

Yield(chunk) == [op |-> "yield", chunk |-> chunk]

\* The loop `for (const line of lines)`, lines 137-162, run on the lines still to
\* handle until the generator stops: at `yield chunk` (line 157), where it hands
\* the chunk over and keeps the lines that follow, at the return of a [DONE]
\* line (line 152), or at the end of the lines, back at reader.read().
RECURSIVE forLines(_)
forLines(lines) ==
    IF lines = <<>> THEN [effects |-> <<>>, at |-> "stream_read", lines |-> <<>>]
    ELSE LET p == processLine(LineOf(Head(lines)))
         IN  CASE p.do = "return" -> [effects |-> <<>>, at |-> "finished", lines |-> <<>>]
               [] p.do = "yield" -> [effects |-> <<Yield(p.chunk)>>, at |-> "yield",
                                     lines |-> Tail(lines)]
               [] p.do = "warn" -> [forLines(Tail(lines)) EXCEPT !.effects = <<Warn>> \o @]
               [] p.do = "skip" -> forLines(Tail(lines))

\* Lines 131-135 throwing the incomplete line away instead of keeping it.
readerTurnNoBuffer(buffer, value) ==
    LET lines == split(buffer \o value, <<>>, <<>>)
    IN  [lines |-> lines, buffer |-> <<>>]

\* Lines 131-135 for a read that delivered value: the lines that a newline
\* ended, and the rest of the text as the new buffer.
readerTurn(buffer, value) ==
    LET lines == split(buffer \o value, <<>>, <<>>)
    IN  [lines |-> SubSeq(lines, 1, Len(lines) - 1), buffer |-> lines[Len(lines)]]

InitReader ==
    /\ body \in UpstreamBodies
    /\ pc = "stream_read"
    /\ state = [t |-> "reader", delivered |-> 0, buffer |-> <<>>, lines |-> <<>>]
    /\ log = <<>>
    /\ reads = 0
    /\ idCounter = 0

\* reader.read() delivers some more of the body, and the generator runs until
\* it stops again: lines 125-162.
ReaderRead ==
    /\ pc = "stream_read"
    /\ \E k \in 1..(Len(body) - state.delivered) :
          LET value == SubSeq(body, state.delivered + 1, state.delivered + k)
              turn == readerTurn(state.buffer, value)
              r == forLines(turn.lines)
          IN  /\ log' = log \o r.effects
              /\ state' = [state EXCEPT !.delivered = @ + k, !.buffer = turn.buffer,
                                        !.lines = r.lines]
              /\ pc' = r.at
    /\ reads' = reads + 1
    /\ UNCHANGED <<body, idCounter>>

\* The consumer asks for the next chunk: the generator resumes after its
\* `yield chunk`, line 157, with the lines of the same read that follow.
ReaderResume ==
    /\ pc = "yield"
    /\ LET r == forLines(state.lines)
       IN  /\ log' = log \o r.effects
           /\ state' = [state EXCEPT !.lines = r.lines]
           /\ pc' = r.at
    /\ UNCHANGED <<body, reads, idCounter>>

\* The consumer leaves its loop with the generator stopped at `yield chunk`
\* (the handler's loop body threw): the generator is made to return there, its
\* finally block releases the reader, lines 164-166, and the lines that follow
\* are never handled.
ReaderReturn ==
    /\ pc = "yield"
    /\ pc' = "returned"
    /\ UNCHANGED <<body, state, log, reads, idCounter>>

\* reader.read() reports done: the loop breaks, lines 127-129, and the generator
\* ends with what is left in the buffer unread.
ReaderDone ==
    /\ pc = "stream_read"
    /\ state.delivered = Len(body)
    /\ pc' = "finished"
    /\ UNCHANGED <<body, state, log, reads, idCounter>>

NextReader == ReaderRead \/ ReaderResume \/ ReaderReturn \/ ReaderDone

SpecReader == InitReader /\ [][NextReader]_vars

\* ------------------------------------------------- reading the handler's log

\* The frames written to the consumer, in order; their tags; their events.
Frames == SelectSeq(log, LAMBDA e : e.op = "write")
Tags == LET frames == Frames IN [i \in 1..Len(frames) |-> frames[i].frame.event]
Events == LET frames == Frames IN [i \in 1..Len(frames) |-> frames[i].frame.data]

Count(seq, tag) == Cardinality({i \in 1..Len(seq) : seq[i] = tag})

\* The upstream lines that carried a JSON value, i.e. the chunks the client yielded.
Yielded ==
    LET lines == SelectSeq(log, LAMBDA e : e.op = "recv" /\ e.line.prefix = "data:"
                                            /\ e.line.data.t = "json")
    IN  [i \in 1..Len(lines) |-> lines[i].line.data.value]

\* A chunk of the expected structure: a choices list whose first choice, if any, has a delta.
WellFormed(chunk) ==
    /\ chunk.t = "object"
    /\ chunk.choices.t = "array"
    /\ Len(chunk.choices.items) > 0 => chunk.choices.items[1].delta.t = "object"

HasChoice(chunk) == WellFormed(chunk) /\ Len(chunk.choices.items) > 0
HasContent(chunk) == HasChoice(chunk) /\ ~Falsy(chunk.choices.items[1].delta.content)
HasFinish(chunk) == HasChoice(chunk) /\ ~Falsy(chunk.choices.items[1].finish_reason)

IsStreaming == \E i \in 1..Len(log) : log[i] = Call("createStreamingCompletion")

\* The upstream body ended by itself, or with the [DONE] line.
NormalEnd ==
    /\ pc = "finished"
    /\ \E i \in 1..Len(log) :
          \/ log[i].op = "recv_end"
          \/ log[i].op = "recv" /\ log[i].line = DataLine(DoneMarker)

OpeningTags ==
    <<"response.created", "response.in_progress",
      "response.output_item.added", "response.content_part.added">>

TerminalTail ==
    <<"response.output_text.done", "response.content_part.done",
      "response.output_item.done", "response.completed", "response.done">>

OrderedTags(k) ==
    OpeningTags \o [i \in 1..k |-> "response.output_text.delta"] \o TerminalTail

\* The chunks received are well formed and the last one, and only it, carries a finish reason.
EndsInFinishReason ==
    /\ Len(Yielded) > 0
    /\ \A i \in 1..Len(Yielded) :
          WellFormed(Yielded[i]) /\ (HasFinish(Yielded[i]) <=> i = Len(Yielded))

\* The text an event of the terminal tail carries.
TextOf(event) ==
    CASE event.type = "response.output_text.done" -> event.text
      [] event.type = "response.content_part.done" -> event.part.text
      [] event.type = "response.output_item.done" -> event.item.content[1].text
      [] event.type \in {"response.completed", "response.done"} ->
             event.response.output[1].content[1].text

\* ------------------------------------------------------------------ claims

\* C1: streaming order invariant. When the chunks of an exchange end in a finish
\* reason and the upstream then closes, the tags written are exactly created,
\* in_progress, output_item.added, content_part.added, one output_text.delta per
\* chunk with non-empty content, then the five-event terminal tail.
C1_StreamingOrder ==
    (NormalEnd /\ EndsInFinishReason) =>
        Tags = OrderedTags(Cardinality({i \in 1..Len(Yielded) : HasContent(Yielded[i])}))

\* C1 witness: an exchange that ended after two content chunks and a finish chunk.
C1_Witness ==
    /\ NormalEnd /\ EndsInFinishReason
    /\ Len(Yielded) = 3
    /\ Tags = OrderedTags(2)

\* C2 as claimed: when the upstream closes and no chunk carried a finish reason,
\* the exchange still ends with the terminal tail, carrying the accumulated text,
\* whether or not content deltas were received.
C2_SilentEndEmitsTail ==
    (IsStreaming /\ NormalEnd
       /\ \A i \in 1..Len(Yielded) : WellFormed(Yielded[i]) /\ ~HasFinish(Yielded[i])) =>
        /\ Len(Tags) >= 5
        /\ SubSeq(Tags, Len(Tags) - 4, Len(Tags)) = TerminalTail
        /\ \A i \in (Len(Tags) - 4)..Len(Tags) : TextOf(Events[i]) = state.accumulatedText

\* C3 as claimed: when the consumer connection has been ended, exactly one
\* terminal event (done or error) has been written.
C3_ExactlyOneTerminal ==
    (IsStreaming /\ pc = "finished") =>
        Count(Tags, "response.done") + Count(Tags, "error") = 1

\* reader.read() or the upstream call failed.
TransportFailed ==
    /\ pc = "finished"
    /\ \E i \in 1..Len(log) : log[i].op = "recv_error"

\* C4: error in mid-stream. When the transport fails after output_text.delta
\* events and before any finish reason, the exchange writes exactly one error
\* event, with code stream_error, right after the failure, writes no event of
\* the terminal tail, and ends the connection.
C4_ErrorMidStream ==
    (IsStreaming /\ TransportFailed /\ Count(Tags, "response.output_text.delta") > 0
       /\ \A i \in 1..Len(Yielded) : ~HasFinish(Yielded[i])) =>
        /\ Count(Tags, "error") = 1
        /\ Tags[Len(Tags)] = "error"
        /\ Events[Len(Tags)].error.code = "stream_error"
        /\ \A i \in 1..Len(Tags) : Tags[i] \notin {TerminalTail[k] : k \in 1..5}
        /\ Len(log) >= 3
        /\ log[Len(log) - 2].op = "recv_error"
        /\ log[Len(log) - 1].op = "write"
        /\ log[Len(log)] = End
        /\ Cardinality({i \in 1..Len(log) : log[i] = End}) = 1

\* C4 witness: the transport failed after two deltas had been written.
C4_Witness ==
    /\ IsStreaming /\ TransportFailed
    /\ Count(Tags, "response.output_text.delta") = 2
    /\ \A i \in 1..Len(Yielded) : ~HasFinish(Yielded[i])
    /\ Tags[Len(Tags)] = "error"

\* C5 as claimed: TERMINATED is absorbing. Once done has been written, no later
\* chunk produces an event of the synthesizer: no delta after done, no second tail.
C5_TerminatedAbsorbing ==
    \A i \in 1..Len(Tags) : \A j \in 1..Len(Tags) :
        (i < j /\ Tags[i] = "response.done") => Tags[j] = "error"

EmptyFinishChunk(chunk) == HasFinish(chunk) /\ ~HasContent(chunk)

\* The events 5..9 of an exchange carry the empty text.
EmptyTail ==
    /\ Len(Events) >= 9
    /\ \A i \in 5..9 : TextOf(Events[i]) = ""

\* C6: empty stream. When the first chunk carries a finish reason and no
\* content, the first nine events are the fixed sequence with no delta and with
\* empty text; when that chunk is the whole stream, or the upstream closes
\* without any chunk, these nine events are everything written.
C6_EmptyStream ==
    /\ (IsStreaming /\ Len(Yielded) >= 1 /\ EmptyFinishChunk(Yielded[1])) =>
           /\ Len(Tags) >= 9
           /\ SubSeq(Tags, 1, 9) = OrderedTags(0)
           /\ EmptyTail
    /\ (IsStreaming /\ NormalEnd
          /\ (Len(Yielded) = 0 \/ (Len(Yielded) = 1 /\ EmptyFinishChunk(Yielded[1])))) =>
           /\ Tags = OrderedTags(0)
           /\ EmptyTail

\* C6 witness: the upstream closed without delivering any chunk.
C6_Witness ==
    /\ IsStreaming /\ NormalEnd
    /\ Len(Yielded) = 0
    /\ Tags = OrderedTags(0)

\* The request passed validation and asked for a stream.
StreamRequested == validateRequest(body).ok /\ ~Falsy(body.stream)

\* C7: created and then in_progress are written, with the same response payload
\* (status in_progress, empty output), before the upstream streaming call starts
\* and before anything is read, in every streaming exchange.
C7_BracketBeforeUpstream ==
    /\ \A i \in 1..Len(log) :
          log[i] = Call("createStreamingCompletion") =>
              /\ i >= 3
              /\ log[i - 2].op = "write" /\ log[i - 2].frame.event = "response.created"
              /\ log[i - 1].op = "write" /\ log[i - 1].frame.event = "response.in_progress"
              /\ log[i - 2].frame.data.response = log[i - 1].frame.data.response
              /\ log[i - 2].frame.data.response.status = "in_progress"
              /\ log[i - 2].frame.data.response.output = <<>>
              /\ log[i - 2].frame.data.response.id = state.responseId
              /\ \A j \in 1..(i - 1) : log[j].op \notin {"recv", "recv_end", "recv_error"}
    /\ (pc # "received" /\ StreamRequested) =>
          /\ IsStreaming
          /\ Len(Tags) >= 2
          /\ Tags[1] = "response.created" /\ Tags[2] = "response.in_progress"
    /\ \A i \in 1..Len(log) :
          log[i].op \in {"recv", "recv_end", "recv_error"} /\ StreamRequested =>
              \E j \in 1..(i - 1) : log[j] = Call("createStreamingCompletion")

\* C7 witness: the upstream call failed, after the two events had been written.
C7_Witness ==
    /\ pc = "finished"
    /\ Tags = <<"response.created", "response.in_progress", "error">>

\* A data line that is not a chunk of the expected structure.
IsMalformedLine(line) ==
    /\ line.prefix = "data:"
    /\ \/ line.data = InvalidJson
       \/ line.data.t = "json" /\ ~WellFormed(line.data.value)

\* C8 as claimed: a malformed data line is dropped, no error event is written for it.
C8_MalformedDropped ==
    \A i \in 1..Len(log) :
        (log[i].op = "recv" /\ IsMalformedLine(log[i].line) /\ i < Len(log)) =>
            ~(log[i + 1].op = "write" /\ log[i + 1].frame.event = "error")

\* C9: validation precedes all network activity. For a request validateRequest
\* rejects, no upstream call is made and no event is written; the handler
\* answers with one failure document of status failed.
C9_ValidationFirst ==
    ~validateRequest(body).ok =>
        /\ \A i \in 1..Len(log) : log[i].op \notin {"call", "write", "flushHeaders", "end"}
        /\ pc # "received" =>
              /\ pc = "finished"
              /\ Len(log) = 1
              /\ log[1].op = "json"
              /\ log[1].status = 500
              /\ log[1].body.status = "failed"

\* C9 witness: a rejected request has been answered.
C9_Witness ==
    /\ ~validateRequest(body).ok
    /\ pc = "finished"
    /\ Len(log) = 1 /\ log[1].op = "json"

\* The handler answered with the failure document of a validation failure.
RejectedAtValidation ==
    /\ log[1].op = "json"
    /\ log[1].status = 500
    /\ log[1].body.error.message \in
          {Str("Request body must be a JSON object"),
           Str("'model' field is required and must be a string"),
           Str("'input' field is required"),
           Str("'input' must be a string or an array of messages")}

\* The payloads the claim says are rejected.
ClaimedInvalid(b) ==
    \/ b.t # "request"
    \/ b.model.t # "string"
    \/ b.input.t \notin {"string", "array"}

\* C10 as claimed: validateRequest fails exactly on the payloads that are not an
\* object, or whose model is missing or not a string, or whose input is missing,
\* null or neither a string nor a sequence; otherwise it returns the payload and
\* the handler goes on with it.
C10_ValidateExactlyClaimed ==
    pc # "received" =>
        /\ validateRequest(body).ok <=> ~ClaimedInvalid(body)
        /\ RejectedAtValidation <=> ClaimedInvalid(body)

\* C10 amended: validateRequest also fails when model is the empty string;
\* on every other payload it succeeds and returns the payload unchanged.
C10_ValidateExactly ==
    /\ validateRequest(body).ok <=>
          ~(ClaimedInvalid(body) \/ body.model = ModelName("", <<"">>))
    /\ validateRequest(body).ok => validateRequest(body).value = body
    /\ (pc # "received" /\ (ClaimedInvalid(body) \/ body.model = ModelName("", <<"">>))) =>
          RejectedAtValidation
    /\ (pc # "received" /\ ~(ClaimedInvalid(body) \/ body.model = ModelName("", <<"">>))) =>
          ~RejectedAtValidation

\* C10 witness: a request with an empty model string and a valid input was rejected.
C10_Witness ==
    /\ body.t = "request" /\ body.model = ModelName("", <<"">>) /\ body.input = Str("Say hi")
    /\ pc = "finished"
    /\ log[1].op = "json" /\ log[1].body.status = "failed"

\* ------------------------------------------------------------------
\* Claims about the request translator read the outbound request the handler
\* obtained from translateRequest: the first entry of its log.

\* The content of a turn as its type has it: a string or a list of parts.
IsContent(content) ==
    \/ content.t = "string"
    \/ (content.t = "array" /\ \A i \in 1..Len(content.items) : content.items[i].t = "object")

\* The request passed validation, the turns of its input have content, and its
\* tools, if any, are declarations.
Translatable ==
    /\ pc # "received"
    /\ validateRequest(body).ok
    /\ body.input.t = "array" =>
          \A i \in 1..Len(body.input.items) :
              body.input.items[i].t = "object" /\ IsContent(Prop(body.input.items[i], "content"))
    /\ LET tools == Field(body, "tools")
       IN  tools.t = "undefined"
           \/ (tools.t = "array" /\ \A i \in 1..Len(tools.items) : tools.items[i].t = "object")

UserMessage(text) == [role |-> Str("user"), content |-> text]
SystemMessage(text) == [role |-> Str("system"), content |-> text]

\* C11 as claimed: for a valid request whose input is a string, the outbound
\* messages are the user message with that string, preceded by one system
\* message with the instructions if and only if instructions was set, the empty
\* string included, and nothing else.
C11_StringInputClaimed ==
    (Translatable /\ body.input.t = "string") =>
        /\ log[1].op = "translated"
        /\ log[1].request.messages =
              IF Field(body, "instructions").t # "undefined"
              THEN <<SystemMessage(Field(body, "instructions")), UserMessage(body.input)>>
              ELSE <<UserMessage(body.input)>>

\* C11 amended: for a valid request whose input is a string, the outbound
\* messages are the user message with that string, preceded by one system
\* message with the instructions if and only if instructions is a non-empty
\* string, and nothing else; empty instructions give no system message.
C11_StringInput ==
    (Translatable /\ body.input.t = "string") =>
        /\ log[1].op = "translated"
        /\ log[1].request.messages =
              IF Field(body, "instructions").t = "string" /\ Field(body, "instructions").s # ""
              THEN <<SystemMessage(Field(body, "instructions")), UserMessage(body.input)>>
              ELSE <<UserMessage(body.input)>>

\* C11 witness: a string input with instructions was translated to two messages.
C11_Witness ==
    /\ Translatable /\ body.input = Str("Say hi")
    /\ Field(body, "instructions") = Str("Be brief")
    /\ log[1].op = "translated"
    /\ Len(log[1].request.messages) = 2

\* A declaration that filtering leaves out: an unsupported built-in, or one
\* without a function body.
NotFunctionCapable(tool) ==
    \/ Prop(tool, "type") \in {Str("web_search_preview"), Str("file_search"), Str("code_interpreter")}
    \/ Prop(tool, "function").t = "undefined"

\* C12: the outbound request never carries an empty tools sequence; when the
\* inbound tools list is empty, or every declared tool is an unsupported built-in
\* or lacks a function body, the outbound request has no tools field.
C12_NoEmptyTools ==
    (Translatable /\ log[1].op = "translated") =>
        /\ log[1].request.tools.t = "array" => Len(log[1].request.tools.items) > 0
        /\ (/\ Field(body, "tools").t = "array"
            /\ \A i \in 1..Len(body.tools.items) : NotFunctionCapable(body.tools.items[i]))
              => log[1].request.tools = Undefined

\* C12 witness: a request whose only tool has no function body was translated.
C12_Witness ==
    /\ Translatable /\ log[1].op = "translated"
    /\ Field(body, "tools") = Arr(<<BodylessFunctionTool>>)
    /\ log[1].request.tools = Undefined

\* The outbound tools of the translated request, none when the field is unset.
OutboundTools == IF log[1].request.tools.t = "array" THEN log[1].request.tools.items ELSE <<>>

\* What a declaration states: its name, description and parameters.
Declared(tool) ==
    [type |-> "function",
     function |-> [name |-> Prop(Prop(tool, "function"), "name"),
                   description |-> Prop(Prop(tool, "function"), "description"),
                   parameters |-> Prop(Prop(tool, "function"), "parameters")]]

DeclaredAll(tools) == [i \in 1..Len(tools) |-> Declared(tools[i])]

\* C13 as claimed: the outbound tools are exactly the inbound declarations of
\* type function, in their order, each with the same name, description and
\* parameters; unsupported built-ins are dropped and translation does not fail.
C13_ToolFilteringClaimed ==
    (Translatable /\ Field(body, "tools").t = "array") =>
        /\ log[1].op = "translated"
        /\ OutboundTools =
              DeclaredAll(SelectSeq(body.tools.items,
                                    LAMBDA tl : Prop(tl, "type") = Str("function")))

\* C13 amended: the outbound tools are exactly the inbound declarations of type
\* function that carry a function body, in their order, each with the same
\* name, description and parameters; declarations of type function without a
\* function body are dropped like the unsupported built-ins, and none of them
\* makes translation fail.
C13_ToolFiltering ==
    (Translatable /\ Field(body, "tools").t = "array") =>
        /\ log[1].op = "translated"
        /\ OutboundTools =
              DeclaredAll(SelectSeq(body.tools.items,
                                    LAMBDA tl : /\ Prop(tl, "type") = Str("function")
                                                /\ Prop(tl, "function").t = "object"))

\* C13 witness: of four declarations, the two with a function body were kept in order.
C13_Witness ==
    /\ Translatable /\ log[1].op = "translated"
    /\ Field(body, "tools") =
          Arr(<<AddTool, BodylessFunctionTool, BuiltinTool("file_search"), LookupTool>>)
    /\ Len(OutboundTools) = 2
    /\ OutboundTools[1].function.name = Str("add")
    /\ OutboundTools[2].function.name = Str("lookup")

\* ------------------------------------------------------------------
\* A string that contains the namespace separator.
IsQualified(v) == v.t = "string" /\ Len(v.split) > 1

\* C14: model resolution is idempotent. Resolving a qualified string returns it
\* unchanged; every result of mapModelName is a qualified string, so resolving
\* the result of a resolution returns that same result, for every input string.
C14_ResolutionIdempotent ==
    /\ \A i \in 1..Len(log) :
          /\ IsQualified(log[i].arg) => log[i].result = Returned(log[i].arg)
          /\ log[i].result.ok /\ IsQualified(log[i].result.value)
    /\ Len(log) = 2 => log[2].result = log[1].result

\* ------------------------------------------------------------------
\* The status the claim gives each finish reason.
ClaimedStatus(reason) ==
    CASE reason \in {Str("stop"), Str("length"), Str("tool_calls")} -> "completed"
      [] reason = Str("content_filter") -> "failed"
      [] OTHER -> "completed"

\* The finish reason behind the frame at position i of the log: that of the
\* chunk received last before it, or stop when the handler closed the stream
\* itself after the upstream ended without one.
ReasonBehind(i) ==
    LET j == CHOOSE k \in 1..i : /\ log[k].op \in {"recv", "recv_end"}
                                  /\ \A m \in (k + 1)..i : log[m].op \notin {"recv", "recv_end"}
    IN  IF log[j].op = "recv" /\ log[j].line.prefix = "data:" /\ log[j].line.data.t = "json"
        THEN log[j].line.data.value.choices.items[1].finish_reason
        ELSE Str("stop")

\* C15: status mapping. The translated response, and the response of the
\* completed and done events of a stream, has status completed for stop, length
\* and tool_calls, failed for content_filter, and completed for null and any
\* other reason; a response with an unrecognised reason is still translated.
C15_StatusMapping ==
    \A i \in 1..Len(log) :
        /\ (log[i].op = "recv_response" /\ Len(log[i].response.choices.items) > 0) =>
              /\ log[i + 1].op = "json" /\ log[i + 1].status = 200
              /\ log[i + 1].body.status =
                    ClaimedStatus(log[i].response.choices.items[1].finish_reason)
        /\ (log[i].op = "write"
               /\ log[i].frame.event \in {"response.completed", "response.done"}) =>
              log[i].frame.data.response.status = ClaimedStatus(ReasonBehind(i))

\* C15 witness: a response with an unrecognised finish reason was answered with
\* a translated response of status completed.
C15_Witness ==
    /\ Len(log) = 4 /\ log[3].op = "recv_response"
    /\ log[3].response.choices.items # <<>>
    /\ log[3].response.choices.items[1].finish_reason = Str("eos")
    /\ log[4].op = "json" /\ log[4].status = 200
    /\ log[4].body.status = "completed"

\* ------------------------------------------------------------------
\* A counter of the upstream usage record, zero when it or the record is missing.
SourceCounter(response, field) ==
    IF response.usage.t = "object" /\ response.usage[field].t = "number"
    THEN response.usage[field].n
    ELSE 0

\* The three source counters are there and the total is the sum of the other two.
SourceConsistent(response) ==
    /\ response.usage.t = "object"
    /\ \A f \in {"prompt_tokens", "completion_tokens", "total_tokens"} :
          response.usage[f].t = "number"
    /\ response.usage.total_tokens.n =
          response.usage.prompt_tokens.n + response.usage.completion_tokens.n

\* C16: usage round trip. An upstream response with finish reason stop is
\* translated to status completed with input_tokens = prompt_tokens,
\* output_tokens = completion_tokens and total_tokens = the upstream total
\* (missing counters are zero); when the source counters are consistent,
\* total_tokens = input_tokens + output_tokens.
C16_UsageRoundTrip ==
    \A i \in 1..Len(log) :
        (/\ log[i].op = "recv_response"
         /\ Len(log[i].response.choices.items) > 0
         /\ log[i].response.choices.items[1].finish_reason = Str("stop")) =>
            LET doc == log[i + 1].body
                src == log[i].response
            IN  /\ log[i + 1].op = "json" /\ log[i + 1].status = 200
                /\ doc.status = "completed"
                /\ doc.usage.input_tokens = SourceCounter(src, "prompt_tokens")
                /\ doc.usage.output_tokens = SourceCounter(src, "completion_tokens")
                /\ doc.usage.total_tokens = SourceCounter(src, "total_tokens")
                /\ SourceConsistent(src) =>
                      doc.usage.total_tokens = doc.usage.input_tokens + doc.usage.output_tokens

\* C16 witness: a response with finish reason stop and usage 3 + 2 = 5 was translated.
C16_Witness ==
    /\ Len(log) = 4 /\ log[3].op = "recv_response"
    /\ log[3].response.choices.items # <<>>
    /\ log[3].response.choices.items[1].finish_reason = Str("stop")
    /\ log[3].response.usage = Usage(Num(3), Num(2), Num(5))
    /\ log[4].op = "json" /\ log[4].body.usage.total_tokens = 5

\* ------------------------------------------------------------------
\* C17: every response document the proxy produces, the translated response,
\* the failure document, and the response of the completed and done events,
\* has status failed if and only if it carries an error envelope, also when the
\* upstream finish reason is content_filter.
C17_FailedIffError ==
    \A i \in 1..Len(log) :
        /\ log[i].op = "json" =>
              (log[i].body.status = "failed" <=> "error" \in DOMAIN log[i].body)
        /\ (log[i].op = "write"
               /\ log[i].frame.event \in {"response.completed", "response.done"}) =>
              (log[i].frame.data.response.status = "failed"
                  <=> "error" \in DOMAIN log[i].frame.data.response)

\* ------------------------------------------------------------------
JsonAnswers == SelectSeq(log, LAMBDA e : e.op = "json")

\* C18: an upstream response with zero choices makes translateResponse fail
\* without a response object; the endpoint then answers with exactly one
\* failure document, of status failed and empty output, and no translated response.
C18_EmptyChoices ==
    \A i \in 1..Len(log) :
        (log[i].op = "recv_response" /\ Len(log[i].response.choices.items) = 0) =>
            /\ ~translateResponse(log[i].response, body.model, idCounter).ok
            /\ pc = "finished"
            /\ Len(JsonAnswers) = 1
            /\ log[Len(log)] = JsonAnswers[1]
            /\ JsonAnswers[1].status = 500
            /\ JsonAnswers[1].body.status = "failed"
            /\ JsonAnswers[1].body.output = <<>>
            /\ JsonAnswers[1].body.error.message = Str("No choices in response from OpenRouter")

\* C18 witness: a response without choices was received and answered.
C18_Witness ==
    /\ pc = "finished" /\ Len(log) = 4
    /\ log[3].op = "recv_response" /\ log[3].response.choices.items = <<>>
    /\ log[4].op = "json" /\ log[4].status = 500

\* ------------------------------------------------------------------
\* C19: the error normalizer is total. Whatever the failure value, an
\* exception, an object with a nested error record, an object whose error field
\* is null or not a record, a string, null, translateError returns and never
\* fails itself: every failure of the endpoint is answered with a document of
\* status failed, empty output, zero usage and an error envelope.
C19_ErrorNormalizerTotal ==
    \A i \in 1..Len(log) :
        /\ log[i].op # "reject"
        /\ (log[i].op = "recv_error" /\ ~IsStreaming) =>
              /\ translateError(log[i].error, idCounter).ok
              /\ log[i + 1].op = "json"
        /\ (log[i].op = "json" /\ log[i].status = 500) =>
              /\ log[i].body.status = "failed"
              /\ log[i].body.output = <<>>
              /\ log[i].body.usage = [input_tokens |-> 0, output_tokens |-> 0, total_tokens |-> 0]
              /\ "error" \in DOMAIN log[i].body

\* ------------------------------------------------------------------
\* What exchange e received from its upstream, in order.
ReceivedBy(e) == SelectSeq(log[e], LAMBDA x : x.op \in {"recv", "recv_end"})

\* The exchange served alone: from the log and the stream state after its
\* prologue, the lines it received handled one after the other.
RECURSIVE Alone(_, _, _)
Alone(soFar, st, received) ==
    IF received = <<>> THEN [log |-> soFar, state |-> st]
    ELSE LET x == Head(received)
             r == IF x.op = "recv_end" THEN closeStep(st) ELSE readStep(st, x.line)
         IN  Alone(soFar \o <<x>> \o r.effects, r.state, Tail(received))

\* The stream state exchange e started with: it carries the identifiers the
\* created event announced.
StartState(e) ==
    createStreamState(body[e].model.s, log[e][3].frame.data.response.id.serial - 1)

RunAlone(e) ==
    Alone(<<Translated(translateRequest(body[e]).value, FALSE)>>
              \o streamingPrologue(StartState(e)),
          StartState(e), ReceivedBy(e))

\* C20: request isolation. With two streaming exchanges whose steps interleave
\* in any order, what each exchange emitted (tags, text, response and message
\* identifiers) is what it emits when it is served alone with the same upstream
\* lines, and its stream state is the one it has then: no chunk of the other
\* exchange changed it.
C20_RequestIsolation ==
    \A e \in Exchanges :
        pc[e] # "received" =>
            LET alone == RunAlone(e)
            IN  /\ log[e] = alone.log
                /\ state[stateSlot(e)] = alone.state

\* C20 witness: both exchanges are in mid-stream, each after a chunk of its own.
C20_Witness ==
    /\ pc[1] = "stream_read" /\ pc[2] = "stream_read"
    /\ reads[1] = 1 /\ reads[2] = 1
    /\ state[1].accumulatedText = "a" /\ state[2].accumulatedText = "b"

\* ------------------------------------------------------------------
\* The upstream body ended, sent [DONE], or the transport failed.
IsUpstreamStop(entry) ==
    \/ entry.op \in {"recv_end", "recv_error"}
    \/ entry.op = "recv" /\ entry.line = DataLine(DoneMarker)

\* C21: every streaming exchange terminates cleanly. Once the upstream has
\* ended, sent [DONE] or failed, res.end has been called, and it is called at
\* most once and as the last effect of the exchange.
C21_ConnectionEnded ==
    IsStreaming =>
        /\ \A i \in 1..Len(log) :
              /\ IsUpstreamStop(log[i]) => i < Len(log) /\ log[Len(log)] = End
              /\ log[i] = End => i = Len(log) /\ pc = "finished"
        /\ pc = "finished" => log[Len(log)] = End

\* C21 witness: the upstream closed after one delta and no finish reason; the
\* connection was ended although no terminal tail was written.
C21_Witness ==
    /\ IsStreaming /\ pc = "finished"
    /\ log[Len(log) - 1] = RecvEnd
    /\ log[Len(log)] = End
    /\ Count(Tags, "response.output_text.delta") = 1
    /\ Count(Tags, "response.done") = 0

\* ------------------------------------------------------------------
\* The response headers were flushed: bytes of the response are committed.
Committed == \E i \in 1..Len(log) : log[i] = FlushHeaders

\* A failure document: status 500 with a failed response as its body.
IsFailureDocument(entry) ==
    entry.op = "json" /\ entry.status = 500 /\ entry.body.status = "failed"

\* C22 as claimed: the failure propagation policy. A failure before any byte of
\* the response is committed is answered with one failure document and no
\* event; a failure after the stream started is answered with an error event
\* on the open stream and never with a failure document; no exchange delivers
\* both a failure document and stream events.
C22_FailurePolicy ==
    /\ ~(Frames # <<>> /\ \E i \in 1..Len(log) : log[i].op = "json")
    /\ \A i \in 1..Len(log) :
          log[i].op = "recv_error" =>
              IF Committed
              THEN /\ log[i + 1].op = "write"
                   /\ log[i + 1].frame.event = "error"
                   /\ Count(Tags, "error") = 1
              ELSE /\ IsFailureDocument(log[i + 1])
                   /\ Cardinality({j \in 1..Len(log) : log[j].op = "json"}) = 1
                   /\ Frames = <<>>

\* ------------------------------------------------------------------
\* The payloads of the output_text.delta events among the given events, in order.
Deltas(events) ==
    LET sel == SelectSeq(events, LAMBDA e : e.type = "response.output_text.delta")
    IN  [i \in 1..Len(sel) |-> sel[i].delta]

\* The non-empty content fragments of the chunks the upstream delivered, in order.
Fragments ==
    LET sel == SelectSeq(Yielded, LAMBDA c : HasContent(c))
    IN  [i \in 1..Len(sel) |-> sel[i].choices.items[1].delta.content.s]

TextCarriers ==
    {"response.output_text.done", "response.content_part.done",
     "response.output_item.done", "response.completed", "response.done"}

\* Every text-carrying event among the given events carries the given text
\* followed by the payloads of the deltas that come before it, concatenated.
RECURSIVE TextsFollow(_, _)
TextsFollow(events, text) ==
    IF events = <<>> THEN TRUE
    ELSE LET e == Head(events)
         IN  IF e.type = "response.output_text.delta"
             THEN TextsFollow(Tail(events), text \o e.delta)
             ELSE /\ e.type \in TextCarriers => TextOf(e) = text
                  /\ TextsFollow(Tail(events), text)

\* C23: accumulated text. The text of every output_text.done, content_part.done,
\* output_item.done, completed and done event is the concatenation, in arrival
\* order, of the payloads of the output_text.delta events written before it; and
\* the deltas written are exactly the non-empty content fragments the upstream
\* delivered, one delta per fragment, in upstream order.
C23_AccumulatedText ==
    IsStreaming =>
        LET events == Events
        IN  /\ TextsFollow(events, "")
            /\ Deltas(events) = Fragments

\* C23 witness: fragments "a" and "b" arrived in this order, then a finish
\* reason; the terminal tail carries "ab".
C23_Witness ==
    /\ IsStreaming
    /\ Fragments = <<"a", "b">>
    /\ Len(Events) > 0
    /\ Events[Len(Events)].type = "response.done"
    /\ TextOf(Events[Len(Events)]) = "ab"

\* ------------------------------------------------------------------
\* The content of the first choice of a chunk that has one.
ContentOf(chunk) == chunk.choices.items[1].delta.content

\* C24: idle chunks. A call of translateStreamChunk on a chunk whose first choice
\* has an empty or absent content and no finish reason returns no event and
\* leaves the whole stream state unchanged; a call on a chunk with non-empty
\* content and no finish reason, in a state whose output was already opened,
\* returns the output_text.delta event alone.
C24_IdleChunk ==
    \A i \in 1..Len(log) :
        LET call == log[i]
        IN  /\ (HasChoice(call.chunk) /\ ~HasContent(call.chunk) /\ ~HasFinish(call.chunk)) =>
                  /\ call.ok
                  /\ call.events = <<>>
                  /\ call.after = call.before
            /\ (HasContent(call.chunk) /\ ~HasFinish(call.chunk)
                  /\ call.before.hasStartedOutput) =>
                  call.events = <<OutputTextDelta(ContentOf(call.chunk).s)>>

\* C24 witness: after content "a" opened the output, a chunk with empty content
\* and a null finish reason was translated, then a chunk with content "b".
C24_Witness ==
    /\ Len(log) = 3
    /\ log[1].after.accumulatedText = "a"
    /\ log[2].chunk = Chunk(Arr(<<Choice(Delta(Str("")), Null)>>))
    /\ log[2].before.hasStartedOutput
    /\ log[3].events = <<OutputTextDelta("b")>>
    /\ state.accumulatedText = "ab"

\* ------------------------------------------------------------------
\* C25: the terminal pair. Whenever translateStreamChunk returns a terminal
\* sequence, its completed event and the done event right after it carry the
\* same synthesized response (id, model, status, output text, usage), and done
\* is the last event returned.
C25_CompletedEqualsDone ==
    \A i \in 1..Len(log) :
        LET events == log[i].events
            n == Len(events)
        IN  \A k \in 1..n :
                /\ events[k].type = "response.completed" =>
                      /\ k = n - 1
                      /\ events[n].type = "response.done"
                      /\ events[n].response = events[k].response
                      /\ events[k].response.id = log[i].before.responseId
                      /\ events[k].response.model = log[i].before.model
                /\ events[k].type = "response.done" =>
                      k = n /\ n >= 2 /\ events[n - 1].type = "response.completed"

\* C25 witness: the text "a" was accumulated and the next chunk finished with
\* content_filter; completed and done both carry the failed response with "a".
C25_Witness ==
    /\ Len(log) = 2
    /\ Len(log[2].events) = 5
    /\ log[2].events[4].type = "response.completed"
    /\ log[2].events[5].type = "response.done"
    /\ log[2].events[5].response.status = "failed"
    /\ TextOf(log[2].events[5]) = "a"

\* ------------------------------------------------------------------
\* The consumer's socket is blocked all through entries i..k of the log.
BlockedThrough(i, k) ==
    /\ log[i] = ConsumerBlocked
    /\ \A m \in i..k : log[m] # ConsumerDrained

IsUpstreamRead(entry) == entry.op \in {"recv", "recv_end", "recv_error"}

\* C26 as claimed: backpressure. While the consumer's side of the connection is
\* blocked, once a write has met the blocked socket the handler reads nothing
\* more from the upstream until the socket drains, so the events buffered for
\* the consumer stay within those of one chunk.
C26_Backpressure ==
    \A i \in 1..Len(log) : \A j \in (i + 1)..Len(log) : \A k \in (j + 1)..Len(log) :
        ~(/\ BlockedThrough(i, k)
          /\ log[j].op = "write"
          /\ IsUpstreamRead(log[k]))

\* ------------------------------------------------------------------
\* C27 as claimed: cancellation. Once the consumer has closed the inbound
\* connection, the handler abandons the upstream: at most the read already under
\* way completes, no other read is issued, and no chunk is translated into
\* events any more.
C27_Cancellation ==
    \A i \in 1..Len(log) :
        log[i] = ConsumerClosed =>
            /\ Cardinality({k \in (i + 1)..Len(log) : IsUpstreamRead(log[k])}) <= 1
            /\ \A k \in (i + 1)..(Len(log) - 1) :
                  (log[k].op = "recv" /\ processLine(log[k].line).do = "yield") =>
                      ~(log[k + 1].op = "write" /\ log[k + 1].frame.event # "error")

\* ------------------------------------------------------------------
\* A failure of the upstream call the claim covers: the body of a non-2xx
\* answer with a nested error record, or an exception of the transport.
IsNestedFailure(error) == error.t = "upstream_error" /\ error.error.t = "object"
IsTransportException(error) == error.t = "error"

\* The message and the code the upstream gave with a failure.
UpstreamMessage(error) ==
    IF IsNestedFailure(error) THEN error.error.message ELSE Str(error.message)
UpstreamCode(error) ==
    IF ~Falsy(error.error.code) THEN error.error.code ELSE error.error.type

\* C28 as claimed: on both paths a failure of the upstream call is normalized
\* by translateError, so that what the consumer receives next, the failure
\* document or the error event, carries the upstream's message and, for a
\* nested error body, its code or type.
C28_FailureNormalized ==
    \A i \in 1..Len(log) :
        (log[i].op = "recv_error"
           /\ (IsNestedFailure(log[i].error) \/ IsTransportException(log[i].error))) =>
            /\ i < Len(log)
            /\ log[i + 1].op \in {"json", "write"}
            /\ log[i + 1].op = "json" =>
                  /\ log[i + 1].body = translateError(log[i].error, idCounter - 1).value
                  /\ log[i + 1].body.error.message = UpstreamMessage(log[i].error)
                  /\ IsNestedFailure(log[i].error) =>
                        log[i + 1].body.error.code = UpstreamCode(log[i].error)
            /\ log[i + 1].op = "write" =>
                  /\ log[i + 1].frame.event = "error"
                  /\ Str(log[i + 1].frame.data.error.message) = UpstreamMessage(log[i].error)
                  /\ IsNestedFailure(log[i].error) =>
                        Str(log[i + 1].frame.data.error.code) = UpstreamCode(log[i].error)

\* ------------------------------------------------------------------
\* C29 as claimed: one call of translateStreamChunk returns at most six events,
\* for every chunk shape and every prior state.
C29_FanOutClaimed ==
    \A i \in 1..Len(log) : Len(log[i].events) <= 6

\* The number of events one call owes: the opening pair when the output was not
\* started and the chunk has content or a finish reason, one delta for non-empty
\* content, the five events of the terminal tail for a finish reason.
FanOut(chunk, before) ==
    (IF ~before.hasStartedOutput /\ (HasContent(chunk) \/ HasFinish(chunk)) THEN 2 ELSE 0)
    + (IF HasContent(chunk) THEN 1 ELSE 0)
    + (IF HasFinish(chunk) THEN 5 ELSE 0)

\* C29: one call of translateStreamChunk returns zero, one, three, five, six,
\* seven or eight events, never more than eight, for every chunk shape and every
\* prior state: two openers if the output was not started, one delta for
\* non-empty content, five terminal events for a finish reason.
C29_FanOut ==
    \A i \in 1..Len(log) :
        /\ Len(log[i].events) = FanOut(log[i].chunk, log[i].before)
        /\ Len(log[i].events) \in {0, 1, 3, 5, 6, 7, 8}

\* C29 witness: the first chunk carried both content "a" and the finish reason
\* stop, and the call returned eight events.
C29_Witness ==
    /\ Len(log) = 1
    /\ log[1].chunk = Chunk(Arr(<<Choice(Delta(Str("a")), Str("stop"))>>))
    /\ ~log[1].before.hasStartedOutput
    /\ Len(log[1].events) = 8

\* ------------------------------------------------------------------
\* C30: streaming usage is always zero. No call of translateStreamChunk changes
\* the token counters of the stream state, which start at zero, and the usage of
\* every completed and done response is 0 / 0 / 0.
C30_StreamingUsageZero ==
    \A i \in 1..Len(log) :
        /\ log[i].after.inputTokens = log[i].before.inputTokens
        /\ log[i].after.outputTokens = log[i].before.outputTokens
        /\ log[i].before.inputTokens = 0 /\ log[i].before.outputTokens = 0
        /\ \A k \in 1..Len(log[i].events) :
              log[i].events[k].type \in {"response.completed", "response.done"} =>
                  log[i].events[k].response.usage =
                      [input_tokens |-> 0, output_tokens |-> 0, total_tokens |-> 0]

\* C30 witness: two fragments were translated, then a finish reason; the done
\* response carries the text "ab" and a usage of zero.
C30_Witness ==
    /\ Len(log) = 3
    /\ state.accumulatedText = "ab"
    /\ Len(log[3].events) = 5
    /\ log[3].events[5].type = "response.done"
    /\ log[3].events[5].response.usage.total_tokens = 0
    /\ state.outputTokens = 0

\* ------------------------------------------------------------------
\* The upstream message behind the document at log[i] carried content.
MessageHadContent(i) ==
    /\ i > 1
    /\ log[i - 1].op = "recv_response"
    /\ ~Falsy(firstChoice(log[i - 1].response))
    /\ ~Falsy(firstChoice(log[i - 1].response).message.content)

\* C31 as claimed: the output of every response document the proxy produces is
\* empty if and only if the request never produced content: the document of a
\* non-streaming exchange has an empty output exactly when the upstream message
\* had no content, and the response of a completed or done event has an empty
\* output exactly when no output_text.delta was written before it.
C31_OutputEmptyIffNoContent ==
    /\ \A i \in 1..Len(log) :
          log[i].op = "json" => (log[i].body.output = <<>> <=> ~MessageHadContent(i))
    /\ LET events == Events
       IN  \A k \in 1..Len(events) :
               events[k].type \in {"response.completed", "response.done"} =>
                   (events[k].response.output = <<>>
                      <=> Deltas(SubSeq(events, 1, k - 1)) = <<>>)

\* ------------------------------------------------------------------
\* The request has one turn whose content is a list of typed parts, and it was
\* translated.
PartsTranslated ==
    /\ pc # "received"
    /\ Len(body.input.items) = 1
    /\ body.input.items[1].content.t = "array"

\* The parts of that turn, and the content of the outbound message made of it.
InboundParts == body.input.items[1].content.items
ConvertedParts == log[1].request.messages[1].content.items

IsTextPart(part) == part.type = Str("input_text")
IsImagePart(part) == part.type = Str("input_image")

\* The outbound part that is the equivalent of an inbound text or image part.
Equivalent(part) ==
    IF IsTextPart(part) THEN [type |-> "text", text |-> part.text]
    ELSE [type |-> "image_url", image_url |-> [url |-> part.image_url]]

\* The equivalents of the given parts, in order.
Equivalents(parts) == [i \in 1..Len(parts) |-> Equivalent(parts[i])]

\* C32 as claimed: the converted content holds, in the original order, one text
\* part for each inbound text part, an empty text included, and one image part
\* for each inbound image part; only parts of an unrecognised type are dropped.
C32_PartsConvertedClaimed ==
    PartsTranslated =>
        /\ log[1].op = "translated"
        /\ ConvertedParts =
              Equivalents(SelectSeq(InboundParts, LAMBDA p : IsTextPart(p) \/ IsImagePart(p)))

\* C32 amended: the converted content holds, in the original order, one text
\* part for each inbound text part with a non-empty text and one image part for
\* each inbound image part with a non-empty URL; parts of an unrecognised type,
\* text parts with an empty text and image parts with an empty URL are dropped.
C32_PartsConverted ==
    PartsTranslated =>
        /\ log[1].op = "translated"
        /\ ConvertedParts =
              Equivalents(SelectSeq(InboundParts,
                                    LAMBDA p : \/ IsTextPart(p) /\ p.text # Str("")
                                               \/ IsImagePart(p) /\ p.image_url # Str("")))

\* C32 witness: an image part and then a text part were converted, in this order.
C32_Witness ==
    /\ PartsTranslated
    /\ InboundParts = <<ImagePart(Str("https://example.com/cat.png")), TextPart(Str("Hello"))>>
    /\ Len(ConvertedParts) = 2
    /\ ConvertedParts[1].type = "image_url"
    /\ ConvertedParts[2].type = "text"

\* ------------------------------------------------------------------
\* The request has an input of turns with string content, and it was handled.
TurnsTranslated ==
    /\ pc # "received"
    /\ \A i \in 1..Len(body.input.items) : body.input.items[i].content.t = "string"

\* The messages the turns of the input stand for: role and content as they are.
TurnMessages ==
    [i \in 1..Len(body.input.items) |->
        [role |-> body.input.items[i].role, content |-> body.input.items[i].content]]

\* C33: sequence input. An input of n turns with string content is translated
\* to exactly n messages, in the same order, each with the role and the string
\* of its turn, preceded by one system message when instructions is a non-empty
\* string; no turn is dropped, duplicated or reordered.
C33_SequenceInput ==
    TurnsTranslated =>
        /\ log[1].op = "translated"
        /\ log[1].request.messages =
              (IF ~Falsy(Field(body, "instructions"))
               THEN <<SystemMessage(Field(body, "instructions"))>> ELSE <<>>)
              \o TurnMessages

\* C33 witness: an assistant turn and then a system turn with empty content, with
\* instructions, were translated to three messages.
C33_Witness ==
    /\ TurnsTranslated
    /\ body.input.items = <<Turn(Str("assistant"), Str("Hello")), Turn(Str("system"), Str(""))>>
    /\ Field(body, "instructions") = Str("Be brief")
    /\ Len(log[1].request.messages) = 3
    /\ log[1].request.messages[3] = [role |-> Str("system"), content |-> Str("")]

\* ------------------------------------------------------------------
\* Some call of translateStreamChunk so far returned an event of this type.
Emitted(type) ==
    \E i \in 1..Len(log) : \E k \in 1..Len(log[i].events) : log[i].events[k].type = type

\* C34 as claimed: the two booleans of the stream state tell what has been
\* emitted. After any sequence of chunks, hasStartedOutput is true exactly when
\* output_item.added was emitted and hasAddedContentPart is true exactly when
\* content_part.added was emitted.
C34_BooleansTrackEmission ==
    /\ state.hasStartedOutput <=> Emitted("response.output_item.added")
    /\ state.hasAddedContentPart <=> Emitted("response.content_part.added")

\* ------------------------------------------------------------------
\* The events of the first n calls of translateStreamChunk, one after the other.
RECURSIVE EmittedBy(_)
EmittedBy(n) == IF n = 0 THEN <<>> ELSE EmittedBy(n - 1) \o log[n].events

\* The positions of the events of a type among the given events.
Positions(events, type) == {k \in 1..Len(events) : events[k].type = type}

\* C35: the opening events are emitted at most once. Over any sequence of chunks
\* on one stream state, output_item.added and content_part.added are each
\* emitted at most once, content_part.added right after output_item.added, and
\* no output_text.delta or output_text.done is emitted before them.
C35_OpenersOnce ==
    LET events == EmittedBy(Len(log))
        items == Positions(events, "response.output_item.added")
        parts == Positions(events, "response.content_part.added")
    IN  /\ Cardinality(items) <= 1
        /\ Cardinality(parts) <= 1
        /\ parts = {k + 1 : k \in items}
        /\ \A k \in Positions(events, "response.output_text.delta")
                       \cup Positions(events, "response.output_text.done") :
               \E p \in parts : p < k

\* C35 witness: a finish reason came first and opened the output, then content,
\* then a second finish reason; the opening pair was emitted once, at the start.
C35_Witness ==
    /\ Len(log) = 3
    /\ HasFinish(log[1].chunk) /\ ~HasContent(log[1].chunk)
    /\ HasContent(log[2].chunk) /\ ~HasFinish(log[2].chunk)
    /\ HasFinish(log[3].chunk)
    /\ Positions(EmittedBy(3), "response.output_item.added") = {1}
    /\ Positions(EmittedBy(3), "response.content_part.added") = {2}

\* ------------------------------------------------------------------
\* C36 as claimed: for every finish reason, the response of the completed and of
\* the done event never has status failed, it has status completed, as the item
\* of the output_item.done event of the same call has.
C36_CompletedIsCompleted ==
    \A i \in 1..Len(log) : \A k \in 1..Len(log[i].events) :
        LET e == log[i].events[k]
        IN  /\ e.type \in {"response.completed", "response.done"} =>
                  /\ e.response.status # "failed"
                  /\ e.response.status = "completed"
            /\ e.type = "response.output_item.done" => e.item.status = "completed"

\* The finish reason of the first choice of a chunk.
FinishOf(chunk) == chunk.choices.items[1].finish_reason

\* C36 amended: the response of the completed and of the done event has the
\* status its finish reason maps to, completed for every finish reason but
\* content_filter and failed for content_filter, while the item of the
\* output_item.done event is marked completed for every finish reason.
C36_StatusFollowsFinishReason ==
    \A i \in 1..Len(log) : \A k \in 1..Len(log[i].events) :
        LET e == log[i].events[k]
        IN  /\ e.type \in {"response.completed", "response.done"} =>
                  e.response.status = IF FinishOf(log[i].chunk) = Str("content_filter")
                                      THEN "failed" ELSE "completed"
            /\ e.type = "response.output_item.done" => e.item.status = "completed"

\* C36 witness: after the text "a", a chunk finished with content_filter; its
\* completed event carries status failed and its item is marked completed.
C36_Witness ==
    /\ Len(log) = 2
    /\ log[2].before.accumulatedText = "a"
    /\ HasFinish(log[2].chunk)
    /\ FinishOf(log[2].chunk) = Str("content_filter")
    /\ Len(log[2].events) = 5
    /\ log[2].events[3].item.status = "completed"
    /\ log[2].events[4].type = "response.completed"
    /\ log[2].events[4].response.status = "failed"

\* ------------------------------------------------------------------
\* The stream state as createStreamState made it at the start of the exchange.
CreatedState == createStreamState(body.model.s, 0)

\* C37: identifier consistency within an exchange. Every written event that
\* carries a response (created, in_progress, completed, done) carries the
\* response id, model and created_at createStreamState chose; every event that
\* carries a message (output_item.added, output_item.done, the message of the
\* completed and done responses) carries the message id it chose; and the
\* identifiers of the stream state never change.
C37_IdentifiersConsistent ==
    state.t = "state" =>
        /\ state.responseId = CreatedState.responseId
        /\ state.messageId = CreatedState.messageId
        /\ state.model = CreatedState.model
        /\ state.createdAt = CreatedState.createdAt
        /\ LET events == Events
           IN  \A k \in 1..Len(events) :
                   LET e == events[k]
                   IN  /\ e.type \in {"response.created", "response.in_progress",
                                      "response.completed", "response.done"} =>
                             /\ e.response.id = CreatedState.responseId
                             /\ e.response.model = CreatedState.model
                             /\ e.response.created_at = CreatedState.createdAt
                       /\ e.type \in {"response.output_item.added",
                                      "response.output_item.done"} =>
                             e.item.id = CreatedState.messageId
                       /\ e.type \in {"response.completed", "response.done"} =>
                             e.response.output[1].id = CreatedState.messageId

\* C37 witness: an exchange wrote the ten events of a stream with one delta and
\* a finish reason, from created to done.
C37_Witness ==
    /\ pc = "stream_read"
    /\ Tags = OrderedTags(1)
    /\ Events[1].response.id = Events[10].response.id
    /\ Events[3].item.id = Events[10].response.output[1].id

\* ------------------------------------------------------------------
\* The lines of a text that a newline ends, and those of them before [DONE].
CompleteLines(text) ==
    LET lines == split(text, <<>>, <<>>) IN SubSeq(lines, 1, Len(lines) - 1)

BeforeDone(lines) ==
    LET dones == {i \in 1..Len(lines) : lines[i] = DoneLine}
    IN  IF dones = {} THEN lines
        ELSE SubSeq(lines, 1, (CHOOSE i \in dones : \A j \in dones : i <= j) - 1)

\* What a text owes: one yield for each complete data line before [DONE], in order.
ExpectedYields(text) ==
    LET data == SelectSeq(BeforeDone(CompleteLines(text)),
                          LAMBDA l : LineOf(l).prefix = "data:" /\ LineOf(l).data.t = "json")
    IN  [i \in 1..Len(data) |-> Yield(LineOf(data[i]).data.value)]

\* C38: line reassembly is independent of the read boundaries. However the
\* body is split over the reads, and wherever the consumer stands between two
\* chunks, what the client has yielded is the beginning of what the part of the
\* body delivered so far owes, i.e. one chunk for each of its complete data
\* lines, in order, comment and blank lines skipped and nothing after a [DONE]
\* line; it is all of that whenever the client waits for the next read; and
\* when the generator completes, it is what the whole body owes, the same for
\* every split.
C38_ReassemblyIndependent ==
    LET owed == ExpectedYields(SubSeq(body, 1, state.delivered))
    IN  /\ Len(log) <= Len(owed)
        /\ log = SubSeq(owed, 1, Len(log))
        /\ pc = "stream_read" => log = owed
        /\ pc = "finished" => log = ExpectedYields(body)

\* C38 witness: a body of two data lines was delivered one piece per read, every
\* data line split over several reads, and both chunks were yielded.
C38_Witness ==
    /\ body = Joined(<<ChunkLine("{a"), ChunkLine("{stop")>>)
    /\ pc = "finished"
    /\ reads = Len(body)
    /\ Len(log) = 2

\* C39 as claimed: when the upstream body ends, every data line received was
\* yielded, a last data line that no newline follows included.
C39_NoChunkLost ==
    pc = "finished" => log = ExpectedYields(body \o <<"\n">>)

\* ------------------------------------------------------------------
\* C40: a chunk with an empty choices list is a no-op. In any state,
\* translateStreamChunk returns normally with no event for it and leaves every
\* field of the stream state as it was.
C40_EmptyChoicesNoOp ==
    \A i \in 1..Len(log) :
        log[i].chunk = EmptyChoicesChunk =>
            /\ log[i].ok
            /\ log[i].events = <<>>
            /\ log[i].after = log[i].before

\* C40 witness: a chunk with no choice came between the content "a" and the
\* finish reason; the tail that followed carries "a".
C40_Witness ==
    /\ Len(log) = 3
    /\ log[2].chunk = EmptyChoicesChunk
    /\ log[2].before.accumulatedText = "a"
    /\ log[2].before.hasStartedOutput
    /\ Len(log[3].events) = 5
    /\ TextOf(log[3].events[5]) = "a"

====
